---- MODULE Spec2Model ----
(***************************************************************************)
(* GINja data reduction: a model of converter/reduction.py                 *)
(* (DataReduction), converter/check_config.py, the writer entry point of   *)
(* converter/orso_convert.py and the three callers (ginja_converter_cli    *)
(* main, ConverterApp.update_preview, ConverterApp.run_conversion_and_save)*)
(*                                                                         *)
(* Numbers.  numpy float arrays are modelled by exact extended rationals   *)
(* <<n, d>> in lowest terms with d >= 0; d = 0 stands for the non-finite   *)
(* floats (<<1,0>> = +inf, <<-1,0>> = -inf, <<0,0>> = nan), which is what  *)
(* numpy division produces instead of raising.  Rounding is not modelled.  *)
(* An uncertainty (e_counts, e_background, dR) is a square root of a       *)
(* rational; it is stored as its signed square s = sign(x) * x^2, so that  *)
(* sqrt, scaling and the sum in quadrature stay exact.                     *)
(* A finite number too large or too small for a 32-bit numerator and       *)
(* denominator is held as <<n, d, e>> = (n / d) * 10^e, with e # 0, n not  *)
(* divisible by 10 and d divisible by neither 2 nor 5.                     *)
(***************************************************************************)
EXTENDS Integers, Sequences, FiniteSets, TLC

VARIABLES
    caller,        \* entry point that drives the run
    parameters,    \* CorrectionParameters
    data,          \* the Metadata provider (one input file)
    pc,            \* position of the running handler
    validated,     \* check_config has been called and has returned normally
    data_list,     \* DataReduction.data_list
    idx,           \* loop index of __calculate's for-loop (1-based)
    norm_local,    \* __calculate's local norm_coefficient of the current dataset
    reads,         \* number of completed reads of DataReduction.result
    stage,         \* per dataset: last pipeline step applied in the current read
    scaled_by,     \* per dataset: the maximum the global pass divided it by, or None
    err,           \* the exception that ended the handler, or "none"
    saved          \* the exchange-format file written by save_orso, or None

vars == <<caller, parameters, data, pc, validated, data_list, idx, norm_local,
          reads, stage, scaled_by, err, saved>>

\* Python's None: a value that differs from every array, rectangle and number
None == << <<>> >>

\* Number of scan rows of the input file.
NRows == 2

(***************************************************************************)
(* Exact arithmetic on extended rationals                                  *)
(***************************************************************************)
Abs(x) == IF x < 0 THEN -x ELSE x

Sign(x) == IF x < 0 THEN -1 ELSE IF x > 0 THEN 1 ELSE 0

RECURSIVE GCD(_, _)
GCD(a, b) == IF b = 0 THEN a ELSE GCD(b, a % b)

\* n / d divided through by g > 0, with the sign s of d moved to the numerator
NormBy(n, d, g, s) == <<s * (n \div g), s * (d \div g)>>

Norm(n, d) ==
    IF d = 0 THEN <<Sign(n), 0>>
    ELSE NormBy(n, d, GCD(Abs(n), Abs(d)), IF d < 0 THEN -1 ELSE 1)

Rat(n) == <<n, 1>>
Frac(n, d) == Norm(n, d)
Zero == <<0, 1>>
One == <<1, 1>>
NaN == <<0, 0>>

IsFinite(a) == a[2] # 0
IsNaN(a) == a = NaN

\* decimal exponent of a number
Ex(a) == IF Len(a) = 3 THEN a[3] ELSE 0

\* the number m * 10^e for a pair m in canonical form
WithEx(m, e) == IF e = 0 THEN m ELSE <<m[1], m[2], e>>

Neg(a) == IF Len(a) = 3 THEN <<-a[1], a[2], a[3]>> ELSE <<-a[1], a[2]>>

RAbs(a) == IF Len(a) = 3 THEN <<Abs(a[1]), a[2], a[3]>> ELSE <<Abs(a[1]), a[2]>>

RECURSIVE Canon(_, _, _)
\* (n / d) * 10^e for finite n / d: the pair in lowest terms when the powers
\* of ten fit in its numerator or denominator, the triple otherwise
Canon(n, d, e) ==
    IF n = 0 THEN <<0, 1>>
    ELSE IF n % 10 = 0 THEN Canon(n \div 10, d, e + 1)
    ELSE IF d % 2 = 0 THEN Canon(n * 5, d \div 2, e - 1)
    ELSE IF d % 5 = 0 THEN Canon(n * 2, d \div 5, e - 1)
    ELSE IF e > 0 /\ e < 9 /\ Abs(n) < 10 ^ (9 - e) THEN Norm(n * 10 ^ e, d)
    ELSE IF e < 0 /\ e > -9 /\ d < 10 ^ (9 + e) THEN Norm(n, d * 10 ^ (-e))
    ELSE IF e = 0 THEN Norm(n, d)
    ELSE Norm(n, d) \o <<e>>

\* a + b for finite a and b with the common denominator l, in units of 10^m
AddOver(a, b, l, m) ==
    IF m = 0 /\ Len(a) = 2 /\ Len(b) = 2
    THEN Norm(a[1] * (l \div a[2]) + b[1] * (l \div b[2]), l)
    ELSE Canon(a[1] * 10 ^ (Ex(a) - m) * (l \div a[2])
               + b[1] * 10 ^ (Ex(b) - m) * (l \div b[2]), l, m)

Add(a, b) ==
    IF a[2] = 0 /\ b[2] = 0
    THEN IF a = b THEN a ELSE NaN
    ELSE IF a[2] = 0 THEN a
    ELSE IF b[2] = 0 THEN b
    ELSE IF Len(a) = 3 /\ b[1] = 0 THEN a
    ELSE IF Len(b) = 3 /\ a[1] = 0 THEN b
    ELSE AddOver(a, b, (a[2] \div GCD(a[2], b[2])) * b[2],
                 IF Ex(a) < Ex(b) THEN Ex(a) ELSE Ex(b))

Sub(a, b) == Add(a, Neg(b))

\* a * b for finite a and b, h1 dividing a[1] and b[2], h2 dividing b[1] and a[2]
MulBy(a, b, h1, h2) ==
    IF Len(a) = 2 /\ Len(b) = 2
    THEN Norm((a[1] \div h1) * (b[1] \div h2), (a[2] \div h2) * (b[2] \div h1))
    ELSE Canon((a[1] \div h1) * (b[1] \div h2), (a[2] \div h2) * (b[2] \div h1),
               Ex(a) + Ex(b))

\* the greatest common divisor of n and d, or 1 where n is 0
Common(n, d) == IF n = 0 THEN 1 ELSE GCD(Abs(n), d)

Mul(a, b) ==
    IF a[2] = 0 \/ b[2] = 0
    THEN <<Sign(a[1]) * Sign(b[1]), 0>>
    ELSE MulBy(a, b, Common(a[1], b[2]), Common(b[1], a[2]))

Inv(a) ==
    IF a[1] > 0 THEN (IF Len(a) = 3 THEN <<a[2], a[1], -a[3]>> ELSE <<a[2], a[1]>>)
    ELSE IF a[1] < 0 THEN (IF Len(a) = 3 THEN <<-a[2], -a[1], -a[3]>> ELSE <<-a[2], -a[1]>>)
    ELSE IF a[2] = 0 THEN NaN ELSE <<1, 0>>

Div(a, b) == Mul(a, Inv(b))

\* x * 10^k < y for integers x and y; between two of the same sign, exponents
\* more than nine apart decide the comparison
LessBy(x, y, k) ==
    IF k = 0 \/ Sign(x) # Sign(y) THEN x < y
    ELSE IF k > 9 THEN x < 0
    ELSE IF k > 0 THEN x * 10 ^ k < y
    ELSE IF k < -9 THEN y > 0
    ELSE x < y * 10 ^ (-k)

\* a < b as floats compare (every comparison with nan is false)
Less(a, b) ==
    IF IsNaN(a) \/ IsNaN(b) THEN FALSE
    ELSE IF a[2] = 0 /\ b[2] = 0 THEN a[1] < b[1]
    ELSE IF a[2] = 0 THEN a[1] < 0
    ELSE IF b[2] = 0 THEN b[1] > 0
    ELSE LessBy(a[1] * (b[2] \div GCD(a[2], b[2])), b[1] * (a[2] \div GCD(a[2], b[2])),
                Ex(a) - Ex(b))

\* the signed square of x, and x * c for an uncertainty held as a signed square
SqOf(x) == Mul(x, RAbs(x))
SqScale(s, c) == Mul(s, SqOf(c))
\* sqrt(x) for x >= 0 held as a signed square; numpy gives nan for x < 0
SqrtSq(x) == IF Less(x, Zero) THEN NaN ELSE x
\* sqrt(a^2 + b^2) on signed squares
Quadrature(s, t) == Add(RAbs(s), RAbs(t))

RECURSIVE SumSet(_, _)
\* sum of f over the finite set S
SumSet(S, f) ==
    IF S = {} THEN 0
    ELSE LET x == CHOOSE y \in S : TRUE IN f[x] + SumSet(S \ {x}, f)

(***************************************************************************)
(* converter/config.py (not part of the sources at hand)                   *)
(***************************************************************************)
DEFAULT_DETECTOR == "detector"
POLARISATION_DEVICES == <<"spin_flipper_1", "spin_flipper_2">>
POLARISATION_STATES == [m |-> "on", p |-> "off"]

(***************************************************************************)
(* The Metadata provider: converter/metadata.py, converter/iofile.py       *)
(***************************************************************************)
\* detector image: ImgSize x ImgSize pixels, pixel <<y, x>>, 0-based
ImgSize == 2
Pixels == (0 .. ImgSize - 1) \X (0 .. ImgSize - 1)

\* a faulty get_polarisation that lists the fallback channel in every case
get_polarisation_with_fallback(dev_list) ==
    LET res == [k \in 1..2 |-> IF POLARISATION_DEVICES[k] \in dev_list
                               THEN {"m", "p"} ELSE {"o"}]
        combinations == {<<a, b>> : a \in res[1], b \in res[2]} \ {<<"o", "o">>}
    IN  combinations \cup {<<"unpolarized">>}

\* get_polarisation: the set of channels of a scan-device list, before list()
\* puts it in an order
get_polarisation(dev_list) ==
    LET res == [k \in 1..2 |-> IF POLARISATION_DEVICES[k] \in dev_list
                               THEN {"m", "p"} ELSE {"o"}]
        combinations == {<<a, b>> : a \in res[1], b \in res[2]} \ {<<"o", "o">>}
    IN  IF combinations # {} THEN combinations ELSE {<<"unpolarized">>}

\* a faulty get_indexes that sums the column matches instead of multiplying them
get_indexes_any(flippers_data, filter_value) ==
    [r \in 1..Len(flippers_data) |->
        IF \E k \in 1..Len(filter_value) : flippers_data[r][k] = filter_value[k]
        THEN 1 ELSE 0]

\* get_indexes: 1 for the rows whose every column equals filter_value, else 0
get_indexes(flippers_data, filter_value) ==
    [r \in 1..Len(flippers_data) |->
        IF \A k \in 1..Len(filter_value) : flippers_data[r][k] = filter_value[k]
        THEN 1 ELSE 0]

\* filter_along_axis (axis 0): the rows of arr whose mask entry is non-zero, in order
filter_along_axis(arr, mask) ==
    LET F[i \in 0..Len(arr)] ==
            IF i = 0 THEN <<>>
            ELSE IF mask[i] # 0 THEN Append(F[i - 1], arr[i]) ELSE F[i - 1]
    IN  F[Len(arr)]

\* a faulty polarisation_filter that looks at the first named spin device only
polarisation_filter_first_symbol(flippers_data, ydata, polarisation) ==
    IF polarisation = <<"unpolarized">> THEN ydata
    ELSE LET symbols == SelectSeq(polarisation, LAMBDA symbol : symbol # "o")
             filter_value == <<POLARISATION_STATES[symbols[1]]>>
             filter_data == get_indexes(flippers_data, filter_value)
         IN  filter_along_axis(ydata, filter_data)

polarisation_filter(flippers_data, ydata, polarisation) ==
    IF polarisation = <<"unpolarized">> THEN ydata
    ELSE LET symbols == SelectSeq(polarisation, LAMBDA symbol : symbol # "o")
             filter_value == [k \in 1..Len(symbols) |-> POLARISATION_STATES[symbols[k]]]
             filter_data == get_indexes(flippers_data, filter_value)
         IN  filter_along_axis(ydata, filter_data)

flippers_data(d) == [r \in 1..Len(d.rows) |-> d.rows[r].flip]

\* Metadata.get_dataset: the named column of the scan, filtered to one channel
get_dataset(d, name, polarisation) ==
    polarisation_filter(flippers_data(d),
                        [r \in 1..Len(d.rows) |-> d.rows[r][name]], polarisation)

get_dataset_monitor(d, polarisation) == get_dataset(d, "monitor", polarisation)

\* a faulty get_dataset_time that hands out the whole column for every channel
get_dataset_time_unfiltered(d, polarisation) ==
    [r \in 1..Len(d.rows) |-> d.rows[r]["time"]]

get_dataset_time(d, polarisation) == get_dataset(d, "time", polarisation)

instrument_settings(d, polarisation) ==
    LET theta_angles == {d.rows[r]["theta"] : r \in DOMAIN d.rows}
    IN  [incident_angle |->
            <<CHOOSE x \in theta_angles : \A y \in theta_angles : ~Less(y, x),
              CHOOSE x \in theta_angles : \A y \in theta_angles : ~Less(x, y)>>,
         wavelength |-> d.wavelength,
         slit_configuration |-> d.slit_configuration,
         polarization |-> polarisation]

measurement(d, polarisation) ==
    [instrument_settings |-> instrument_settings(d, polarisation),
     data_files |-> d.file_path]

(***************************************************************************)
(* converter/check_config.py                                               *)
(***************************************************************************)
\* a faulty check_config that tests the signal region before the detector name
check_config_region_first(p, d) ==
    IF p.data_source.detector = "2Ddata" /\ p.data_source.region = None
    THEN "ValueError: Region should be set"
    ELSE IF p.data_source.detector \notin d.detectors_list
    THEN "ValueError: Wrong detector name"
    ELSE IF p.background.use_correction /\ p.background.correction_type = "psdRegion"
    THEN IF p.data_source.detector = "2Ddata"
         THEN "ValueError: The background correction request 2Ddata detector name"
         ELSE IF p.background.region = None
         THEN "ValueError: Background region should be set"
         ELSE "none"
    ELSE "none"

\* the ValueError check_config raises, or "none" when it returns
check_config(p, d) ==
    IF p.data_source.detector \notin d.detectors_list
    THEN "ValueError: Wrong detector name"
    ELSE IF p.data_source.detector = "2Ddata" /\ p.data_source.region = None
    THEN "ValueError: Region should be set"
    ELSE IF p.background.use_correction /\ p.background.correction_type = "psdRegion"
    THEN IF p.data_source.detector = "2Ddata"
         THEN "ValueError: The background correction request 2Ddata detector name"
         ELSE IF p.background.region = None
         THEN "ValueError: Background region should be set"
         ELSE "none"
    ELSE "none"

(***************************************************************************)
(* converter/reduction.py: construction of DataReduction                   *)
(***************************************************************************)
\* the indices a slice lo:hi+1 selects on an axis of length ImgSize (lo >= 0)
SliceIdx(lo, hi) == {i \in 0 .. ImgSize - 1 : lo <= i /\ i <= hi}

RoiPixels(roi) == SliceIdx(roi[1], roi[2]) \X SliceIdx(roi[3], roi[4])

\* a faulty extract_region_mean whose slices leave out the last row and column
extract_region_mean_exclusive(frame, roi) ==
    LET array == SumSet(SliceIdx(roi[1], roi[2] - 1) \X SliceIdx(roi[3], roi[4] - 1), frame)
        pixel_num == (roi[2] - roi[1] + 1) * (roi[4] - roi[3] + 1)
    IN  <<Div(Rat(array), Rat(pixel_num)),
          Div(SqrtSq(Rat(array)), SqOf(Rat(pixel_num)))>>

\* extract_region_mean on one frame: <<mean, uncertainty (signed square)>>
extract_region_mean(frame, roi) ==
    LET array == SumSet(RoiPixels(roi), frame)
        pixel_num == (roi[2] - roi[1] + 1) * (roi[4] - roi[3] + 1)
    IN  <<Div(Rat(array), Rat(pixel_num)),
          Div(SqrtSq(Rat(array)), SqOf(Rat(pixel_num)))>>

\* a faulty regions_overlap that holds only of a second rectangle lying inside
\* the first
regions_overlap_contained(region1, region2) ==
    /\ region1[1] <= region2[1] /\ region2[2] <= region1[2]
    /\ region1[3] <= region2[3] /\ region2[4] <= region1[4]

regions_overlap(region1, region2) ==
    ~(region2[2] < region1[1] \/ region2[1] > region1[2]
      \/ region2[4] < region1[3] \/ region2[3] > region1[4])

\* the mask branch, on one frame: mean and uncertainty over the pixels of the
\* background rectangle that the signal rectangle does not cover
masked_background(frame, region, region_background) ==
    LET masked_mask == RoiPixels(region_background) \ RoiPixels(region)
        total == SumSet(masked_mask, frame)
        n == Cardinality(masked_mask)
    IN  <<Div(Rat(total), Rat(n)), Div(SqrtSq(Rat(total)), SqOf(Rat(n)))>>

\* __get_detector_data: [exc, signal, background, signal_error, background_error]
get_detector_data(p, d, polarisation) ==
    LET detector == p.data_source.detector
        region == p.data_source.region
        region_background == p.background.region
        zeros_like(a) == [i \in 1..Len(a) |->
                            IF detector = "2Ddata" THEN [px \in Pixels |-> 0] ELSE Zero]
        raise(e) == [exc |-> e, signal |-> <<>>, background |-> <<>>,
                     signal_error |-> <<>>, background_error |-> <<>>]
    IN  IF detector \notin d.detectors_list
        THEN raise("LookupError")
        ELSE LET counts == get_dataset(d, detector, polarisation) IN
        IF detector # "2Ddata"
        THEN [exc |-> "none",
              signal |-> counts,
              background |-> zeros_like(counts),
              signal_error |-> [i \in 1..Len(counts) |-> SqrtSq(counts[i])],
              background_error |-> zeros_like(counts)]
        ELSE IF region = None
        THEN raise("TypeError")
        ELSE LET sig == [i \in 1..Len(counts) |-> extract_region_mean(counts[i], region)]
                 psd == p.background.use_correction
                        /\ p.background.correction_type = "psdRegion"
             IN
        IF psd /\ region_background = None
        THEN raise("TypeError")
        ELSE LET zero_frame == zeros_like(counts)
                 bg == [i \in 1..Len(counts) |->
                          IF ~psd THEN <<zero_frame[i], zero_frame[i]>>
                          ELSE IF regions_overlap(region, region_background)
                          THEN masked_background(counts[i], region, region_background)
                          ELSE extract_region_mean(counts[i], region_background)]
             IN  [exc |-> "none",
                  signal |-> [i \in 1..Len(counts) |-> sig[i][1]],
                  background |-> [i \in 1..Len(counts) |-> bg[i][1]],
                  signal_error |-> [i \in 1..Len(counts) |-> sig[i][2]],
                  background_error |-> [i \in 1..Len(counts) |-> bg[i][2]]]

DataSetOutput == [Q |-> None, dQ |-> None, R |-> None, dR |-> None]

\* one DataSet of __create_data_list (the detector data extracted without error)
DataSet(p, d, polarisation) ==
    LET det == get_detector_data(p, d, polarisation)
    IN  [header |-> [owner |-> d.owner, experiment |-> d.experiment, sample |-> d.sample],
         measurement |-> measurement(d, polarisation),
         counts |-> det.signal,
         theta |-> get_dataset(d, "theta", polarisation),
         time |-> get_dataset_time(d, polarisation),
         monitor |-> get_dataset_monitor(d, polarisation),
         background |-> det.background,
         result |-> DataSetOutput,
         e_counts |-> det.signal_error,
         e_background |-> det.background_error]

\* __create_data_list: [exc, list]; the first channel whose extraction raises ends it
create_data_list(p, d) ==
    LET pol == d.polarisation
        bad == {k \in 1..Len(pol) : get_detector_data(p, d, pol[k]).exc # "none"}
    IN  IF bad # {}
        THEN [exc |-> get_detector_data(p, d, pol[CHOOSE k \in bad : \A j \in bad : k <= j]).exc,
              list |-> <<>>]
        ELSE [exc |-> "none", list |-> [k \in 1..Len(pol) |-> DataSet(p, d, pol[k])]]

(***************************************************************************)
(* converter/correction.py, converter/calulation.py, converter/utils.py    *)
(***************************************************************************)
\* np.arcsin in degrees, on the arguments whose arcsine is a rational number
\* of degrees; nan outside [-1, 1]
ArcsinDeg(x) ==
    CASE x = Zero -> Zero
      [] x = Frac(1, 2) -> Rat(30)
      [] x = One -> Rat(90)
      [] x = Frac(-1, 2) -> Rat(-30)
      [] x = Neg(One) -> Rat(-90)
      [] Less(One, x) \/ Less(x, Neg(One)) \/ ~IsFinite(x) -> NaN

\* footprint_correction_two_slits at one angle.  The factor depends on the
\* angles only through comparisons and ratios of angles, so degrees are
\* used throughout in place of radians.
\* footprint_correction_two_slits lines 19-41: the illuminated fraction of the beam
correction_factor(angle_deg, slits_data, sample_length) ==
    LET theta == angle_deg
        s1w == slits_data.slit1_width
        s2w == slits_data.slit2_width
        l1 == RAbs(slits_data.slit1_position)
        l2 == RAbs(slits_data.slit2_position)
        beam_center == Sub(s2w, Div(Mul(Sub(s1w, s2w), l2), Add(l1, l2)))
        beam_size == Sub(Div(Mul(Add(s1w, s2w), Add(l1, l2)), Sub(l1, l2)), s1w)
        theta2 == ArcsinDeg(Div(beam_center, sample_length))
        theta3 == ArcsinDeg(Div(beam_size, sample_length))
        full_beam == Add(beam_center, Div(Sub(beam_size, beam_center), Rat(2)))
        scale_outer == Div(Div(Sub(beam_size, beam_center), Rat(2)), full_beam)
        d3 == Sub(theta, theta3)
        d32 == Sub(theta3, theta2)
    IN  IF Less(theta, theta3)
        THEN IF Less(theta, theta2)
             THEN Div(Mul(Sub(One, scale_outer), theta), theta2)
             ELSE Add(Sub(One, scale_outer),
                      Mul(Sub(One, Div(Mul(d3, d3), Mul(d32, d32))), scale_outer))
        ELSE One

\* a faulty footprint correction that returns the illuminated fraction itself
footprint_fraction(angle_deg, slits_data, sample_length) ==
    correction_factor(angle_deg, slits_data, sample_length)

\* footprint_correction_two_slits line 42
footprint_correction_two_slits(angle_deg, slits_data, sample_length) ==
    Div(One, correction_factor(angle_deg, slits_data, sample_length))

\* np.sin, np.cos of an angle in degrees and np.arctan in degrees, on the
\* arguments where they are rational
SinDeg(t) ==
    CASE t = Zero -> Zero
      [] t = Rat(30) -> Frac(1, 2)
      [] t = Rat(90) -> One

CosDeg(t) ==
    CASE t = Zero -> One
      [] t = Rat(60) -> Frac(1, 2)
      [] t = Rat(90) -> Zero

ArctanDeg(x) ==
    CASE x = Zero -> Zero
      [] x = One -> Rat(45)

\* np.clip(x, 1e-6, None)
ClipLow(x) == IF Less(x, Frac(1, 1000000)) THEN Frac(1, 1000000) ELSE x

\* np.exp(-t) for t = n * ln 2 with n an integer, given n: 2^(-n)
ExpNegLn2(n) ==
    CASE n[2] = 1 /\ n[1] >= 0 -> Frac(1, 2 ^ n[1])
      [] n[2] = 1 /\ n[1] < 0 -> Rat(2 ^ (-n[1]))

\* absorption_correction at one angle: exp(-mu * lamda * x).  The path length
\* x is finite (sine and cosine are clipped to at least 1e-6), so for mu = 0
\* the factor is exp(0) = 1.  A non-zero mu is held in units of ln 2, which
\* makes the factor the rational 2^-(mu * lamda * x) when that exponent is an
\* integer.
absorption_correction(theta, lamda, mu, sample) ==
    CASE mu = Zero -> One
      [] OTHER ->
           LET theta1 == ArctanDeg(Mul(Div(sample.thickness, sample.length), Rat(2)))
               x == IF Less(theta, theta1)
                    THEN Div(sample.length, ClipLow(CosDeg(theta)))
                    ELSE Div(Mul(Rat(2), sample.thickness), ClipLow(SinDeg(theta)))
           IN  ExpNegLn2(Mul(Mul(mu, lamda), x))

\* q_with_resolution_from_slits at one angle: Q and dQ as terms over their inputs
q_with_resolution_from_slits(theta_deg, lamda, slits_data, dlam_rel) ==
    <<  <<"Q", theta_deg, lamda>>,
        <<"dQ", theta_deg, lamda, slits_data, dlam_rel>>  >>

\* the default of safety_div's third parameter, 1e-12
epsilon == WithEx(One, -12)

\* a faulty safety_div that divides by whatever it is given
safety_div_unguarded(first_arg, second_arg) == Div(first_arg, second_arg)

\* safety_div, elementwise
safety_div(first_arg, second_arg) ==
    LET second_safe == IF Less(RAbs(second_arg), epsilon)
                       THEN Div(One, epsilon)
                       ELSE second_arg
    IN  Div(first_arg, second_safe)

\* np.max of a non-empty array (nan if any element is nan)
NpMax(arr) ==
    IF \E i \in 1..Len(arr) : IsNaN(arr[i]) THEN NaN
    ELSE arr[CHOOSE i \in 1..Len(arr) : \A j \in 1..Len(arr) : ~Less(arr[i], arr[j])]

(***************************************************************************)
(* converter/reduction.py: the pipeline                                    *)
(***************************************************************************)
\* __correction: [exc, coef]
correction(p, dataset) ==
    LET n == Len(dataset.counts)
        fp == [i \in 1..n |->
                 IF p.reduction.foot_print_correction
                 THEN footprint_correction_two_slits(
                          dataset.theta[i],
                          dataset.measurement.instrument_settings.slit_configuration,
                          dataset.header.sample.length)
                 ELSE One]
        mu == IF p.reduction.mu_type = "constValue" THEN p.reduction.mu_value
              ELSE IF p.reduction.mu_type = "typical" THEN p.reduction.mu_enum
              ELSE Zero
        ab == [i \in 1..n |->
                 IF p.reduction.absorption_correction
                 THEN absorption_correction(
                          dataset.theta[i],
                          dataset.measurement.instrument_settings.wavelength,
                          mu, dataset.header.sample)
                 ELSE One]
    IN  IF p.reduction.polarisation_correction
        THEN [exc |-> "NotImplementedError()", coef |-> <<>>]
        ELSE [exc |-> "none", coef |-> [i \in 1..n |-> Mul(Mul(One, fp[i]), ab[i])]]

\* a faulty __normalisation: the monitor multiplies instead of dividing
normalisation_times_monitor(p, dataset) ==
    [i \in 1..Len(dataset.counts) |->
        LET c0 == One
            c1 == IF p.normalisation.monitor THEN Mul(c0, dataset.monitor[i]) ELSE c0
            c2 == IF p.normalisation.time THEN Div(c1, dataset.time[i]) ELSE c1
        IN  c2]

\* __normalisation
normalisation(p, dataset) ==
    [i \in 1..Len(dataset.counts) |->
        LET c0 == One
            c1 == IF p.normalisation.monitor THEN safety_div(c0, dataset.monitor[i]) ELSE c0
            c2 == IF p.normalisation.time THEN safety_div(c1, dataset.time[i]) ELSE c1
        IN  c2]

\* a faulty __background_correction whose constant mode scales the constant by
\* the normalisation coefficient
background_correction_scaled(p, dataset, norm_coefficient) ==
    LET n == Len(dataset.counts)
        R0 == dataset.result.R
        dR0 == dataset.result.dR
        use == p.background.use_correction
        type == p.background.correction_type
        R1 == IF use /\ type = "constValue"
              THEN [i \in 1..n |-> Sub(R0[i], Mul(p.background.value, norm_coefficient[i]))]
              ELSE R0
        R2 == IF use /\ type = "psdRegion"
              THEN [i \in 1..n |-> Sub(R1[i], Mul(dataset.background[i], norm_coefficient[i]))]
              ELSE R1
        dR2 == IF use /\ type = "psdRegion"
               THEN [i \in 1..n |->
                       Quadrature(dR0[i], SqScale(dataset.e_background[i], norm_coefficient[i]))]
               ELSE dR0
    IN  IF use /\ type = "extraFile"
        THEN [exc |-> "NotImplementedError()", R |-> R1, dR |-> dR0]
        ELSE [exc |-> "none", R |-> R2, dR |-> dR2]

\* __background_correction: [exc, R, dR]
background_correction(p, dataset, norm_coefficient) ==
    LET n == Len(dataset.counts)
        R0 == dataset.result.R
        dR0 == dataset.result.dR
        use == p.background.use_correction
        type == p.background.correction_type
        R1 == IF use /\ type = "constValue"
              THEN [i \in 1..n |-> Sub(R0[i], p.background.value)] ELSE R0
        R2 == IF use /\ type = "psdRegion"
              THEN [i \in 1..n |-> Sub(R1[i], Mul(dataset.background[i], norm_coefficient[i]))]
              ELSE R1
        dR2 == IF use /\ type = "psdRegion"
               THEN [i \in 1..n |->
                       Quadrature(dR0[i], SqScale(dataset.e_background[i], norm_coefficient[i]))]
               ELSE dR0
    IN  IF use /\ type = "extraFile"
        THEN [exc |-> "NotImplementedError()", R |-> R1, dR |-> dR0]
        ELSE [exc |-> "none", R |-> R2, dR |-> dR2]

\* __intensity_correction: [exc, R, dR]
intensity_correction(p, dataset) ==
    LET n == Len(dataset.counts)
        R0 == dataset.result.R
        dR0 == dataset.result.dR
        on == p.normalisation.intensity_norm
        type == p.normalisation.intensity_norm_type
        v == p.normalisation.intensity_value
        R1 == IF on /\ type = "constValue" THEN [i \in 1..n |-> Div(R0[i], v)] ELSE R0
        dR1 == IF on /\ type = "constValue"
               THEN [i \in 1..n |-> SqScale(dR0[i], Inv(v))] ELSE dR0
    IN  IF on /\ type = "maxValue"
        THEN IF n = 0
             THEN [exc |-> "ValueError: zero-size array to reduction operation maximum",
                   R |-> R1, dR |-> dR1]
             ELSE LET max_value == NpMax(R1)
                  IN  [exc |-> "none",
                       R |-> [i \in 1..n |-> Div(R1[i], max_value)],
                       dR |-> [i \in 1..n |-> SqScale(dR1[i], Inv(max_value))]]
        ELSE [exc |-> "none", R |-> R1, dR |-> dR1]

\* a faulty loop that leaves after its first dataset
loop_once(i, n) == "calc_global"

\* the for-loop of __calculate (line 147): where control goes once dataset
\* number i of n has been through line 159
loop_next(i, n) == IF i < n THEN "calc_q" ELSE "calc_global"

\* a faulty global pass that takes the maximum of the first dataset alone
global_pass_first_dataset(p, list) ==
    IF p.normalisation.intensity_norm_type = "maxValueGlobal"
    THEN IF \E k \in 1..Len(list) : Len(list[k].result.R) = 0
         THEN [exc |-> "ValueError: zero-size array to reduction operation maximum",
               list |-> list, max_value |-> None]
         ELSE LET max_value == NpMax(list[1].result.R)
              IN  [exc |-> "none",
                   list |-> [k \in 1..Len(list) |->
                       [list[k] EXCEPT
                          !.result.R = [i \in 1..Len(@) |-> Div(@[i], max_value)],
                          !.result.dR = [i \in 1..Len(@) |-> SqScale(@[i], Inv(max_value))]]],
                   max_value |-> max_value]
    ELSE [exc |-> "none", list |-> list, max_value |-> None]

\* the global pass of __calculate (lines 161-165): [exc, list]
global_pass(p, list) ==
    IF p.normalisation.intensity_norm_type = "maxValueGlobal"
    THEN IF \E k \in 1..Len(list) : Len(list[k].result.R) = 0
         THEN [exc |-> "ValueError: zero-size array to reduction operation maximum",
               list |-> list, max_value |-> None]
         ELSE LET max_value == NpMax([k \in 1..Len(list) |-> NpMax(list[k].result.R)])
              IN  [exc |-> "none",
                   list |-> [k \in 1..Len(list) |->
                       [list[k] EXCEPT
                          !.result.R = [i \in 1..Len(@) |-> Div(@[i], max_value)],
                          !.result.dR = [i \in 1..Len(@) |-> SqScale(@[i], Inv(max_value))]]],
                   max_value |-> max_value]
    ELSE [exc |-> "none", list |-> list, max_value |-> None]

\* the unimplemented intensity mode (lines 167-168)
psd_region_check(p) ==
    IF p.normalisation.intensity_norm_type = "psdRegion"
    THEN "NotImplementedError('IntensityTypeCorrection.psdRegion is not implemented yet')"
    ELSE "none"

\* the body of the for-loop of __calculate (lines 148-159) on one dataset, up
\* to and including step st: the dataset as that step leaves it
loop_body(p, dataset, st) ==
    LET is == dataset.measurement.instrument_settings
        q == [i \in 1..Len(dataset.theta) |->
                q_with_resolution_from_slits(dataset.theta[i], is.wavelength,
                                             is.slit_configuration,
                                             "WAVELENGTH_RESOLUTION")]
        d1 == [dataset EXCEPT !.result.Q = [i \in 1..Len(q) |-> q[i][1]],
                              !.result.dQ = [i \in 1..Len(q) |-> q[i][2]]]
        corr_coefficient == correction(p, d1).coef
        norm_coefficient == normalisation(p, d1)
        d2 == [d1 EXCEPT
                 !.result.R = [i \in 1..Len(d1.counts) |->
                     Mul(Mul(d1.counts[i], corr_coefficient[i]), norm_coefficient[i])],
                 !.result.dR = [i \in 1..Len(d1.counts) |->
                     SqScale(SqScale(d1.e_counts[i], corr_coefficient[i]),
                             norm_coefficient[i])]]
        bg == background_correction(p, d2, norm_coefficient)
        d3 == [d2 EXCEPT !.result.R = bg.R, !.result.dR = bg.dR]
        in == intensity_correction(p, d3)
        d4 == [d3 EXCEPT !.result.R = in.R, !.result.dR = in.dR]
    IN  CASE st = "extracted" -> dataset
          [] st = "Q" -> d1
          [] st = "R" -> d2
          [] st = "background" -> d3
          [] st = "intensity" -> d4

\* __calculate run to its end on a list whose loop bodies raise nothing: the
\* for-loop in list order, then the global pass: [exc, list]
calculate(p, list) ==
    LET looped == [k \in 1..Len(list) |-> loop_body(p, list[k], "intensity")]
        g == global_pass(p, looped)
    IN  IF g.exc # "none" THEN [exc |-> g.exc, list |-> g.list]
        ELSE [exc |-> psd_region_check(p), list |-> g.list]

(***************************************************************************)
(* converter/orso_convert.py: what save_orso is handed                     *)
(***************************************************************************)
\* OrsoData.reduction: the corrections list of the header, one sentence per
\* entry; a sentence is the tuple of its fixed words and the values formatted
\* into it
reduction(p) ==
    LET s0 == << <<"Collect intensity from", p.data_source.detector,
                   IF p.data_source.region # None
                   THEN <<"from region", p.data_source.region>> ELSE <<>> >> >>
        s1 == IF p.reduction.foot_print_correction
              THEN Append(s0, <<"Made foot print correction with trapezoid beam">>) ELSE s0
        s2 == IF p.reduction.polarisation_correction
              THEN Append(s1, <<"Made polarisation correction">>) ELSE s1
        mu == IF p.reduction.mu_type = "constValue" THEN <<"mu =", p.reduction.mu_value>>
              ELSE IF p.reduction.mu_type = "typical" THEN <<"mu(name) =", p.reduction.mu_enum>>
              ELSE <<>>
        s3 == IF p.reduction.absorption_correction
              THEN Append(s2, <<"Made absorption correction with", mu>>) ELSE s2
        s4 == IF p.normalisation.time THEN Append(s3, <<"Made time normalisation">>) ELSE s3
        s5 == IF p.normalisation.monitor
              THEN Append(s4, <<"Made monitor counts normalisation">>) ELSE s4
        type == p.normalisation.intensity_norm_type
        in_norm == CASE type = "constValue" ->
                          <<"constant value", p.normalisation.intensity_value>>
                     [] type = "maxValue" -> <<"maximum intensity point in current dataset">>
                     [] type = "maxValueGlobal" -> <<"maximum intensity point of all datasets">>
                     [] type = "psdRegion" ->
                          <<"from special point", p.normalisation.intensity_point_number,
                            "in region of detector", p.normalisation.intensity_region>>
                     [] OTHER -> <<>>
        s6 == IF p.normalisation.intensity_norm
              THEN Append(s5, <<"Made intensity normalisation by", in_norm>>) ELSE s5
        bk_norm == CASE p.background.correction_type = "constValue" ->
                          <<"with constant value", p.background.value>>
                     [] p.background.correction_type = "extraFile" ->
                          <<"from file", p.background.file>>
                     [] p.background.correction_type = "psdRegion" ->
                          <<"from PSD in region", p.background.region>>
                     [] OTHER -> <<>>
        s7 == IF p.background.use_correction
              THEN Append(s6, <<"Made background correction", bk_norm>>) ELSE s6
    IN  s7 \o << <<"Calculate Q from Angle">>,
                 <<"Calculate dQ from Slit parameters and delta lambda / lambda =",
                   "WAVELENGTH_RESOLUTION">>,
                 <<"Calculate dR like Poisson distribution">> >>

\* OrsoData.columns
columns ==
    << [name |-> "Q", unit |-> "1/Angstrom"], [error_of |-> "Q"],
       [name |-> "R", unit |-> None], [error_of |-> "R"] >>

\* ndarray.T of a two-dimensional array given as the sequence of its rows
Transpose(matrix) ==
    [i \in 1..Len(matrix[1]) |-> [c \in 1..Len(matrix) |-> matrix[c][i]]]

\* get_measurement_orso: the instrument settings of the exchange format
get_measurement_orso(meas) ==
    LET is_data == meas.instrument_settings
    IN  [instrument_settings |->
            [incident_angle |-> <<is_data.incident_angle[1], is_data.incident_angle[1]>>,
             wavelength |-> is_data.wavelength,
             polarization |-> is_data.polarization,
             slit_configuration |->
                [key \in DOMAIN is_data.slit_configuration \ {"units"} |->
                    <<is_data.slit_configuration[key], is_data.slit_configuration.units>>]],
         data_files |-> meas.data_files]

\* a faulty orso_dataset that stacks the arrays as [Q, R, dQ, dR]
orso_dataset_swapped(list, p) ==
    [k \in 1..Len(list) |->
        [polarization |-> list[k].measurement.instrument_settings.polarization,
         measurement |-> get_measurement_orso(list[k].measurement),
         corrections |-> reduction(p),
         columns |-> columns,
         rows |-> Transpose(<<list[k].result.Q, list[k].result.R,
                              list[k].result.dQ, list[k].result.dR>>)]]

\* OrsoData.orso_dataset: per dataset the header (polarization label of the
\* measurement, corrections of the reduction, columns) and the array
\* [Q, dQ, R, dR] transposed (dR as signed square)
orso_dataset(list, p) ==
    [k \in 1..Len(list) |->
        [polarization |-> list[k].measurement.instrument_settings.polarization,
         measurement |-> get_measurement_orso(list[k].measurement),
         corrections |-> reduction(p),
         columns |-> columns,
         rows |-> Transpose(<<list[k].result.Q, list[k].result.dQ,
                              list[k].result.R, list[k].result.dR>>)]]

(***************************************************************************)
(* Actions                                                                 *)
(***************************************************************************)
Raise(e) ==
    /\ err' = e
    /\ pc' = "failed"

\* a faulty caller that goes on to the construction whatever check_config says
CheckConfig_ignored ==
    /\ pc = "check_config"
    /\ validated' = (check_config(parameters, data) = "none")
    /\ pc' = "construct"
    /\ UNCHANGED <<caller, parameters, data, data_list, idx, norm_local, reads,
                   stage, scaled_by, err, saved>>

\* check_config(parameters, data) in main (cli) and run_conversion_and_save
CheckConfig ==
    /\ pc = "check_config"
    /\ LET e == check_config(parameters, data)
       IN  IF e = "none"
           THEN /\ validated' = TRUE
                /\ pc' = "construct"
                /\ err' = err
           ELSE /\ Raise(e)
                /\ validated' = validated
    /\ UNCHANGED <<caller, parameters, data, data_list, idx, norm_local, reads,
                   stage, scaled_by, saved>>

\* MadeConversion(data, parameters): DataReduction.__init__
Construct ==
    /\ pc = "construct"
    /\ LET r == create_data_list(parameters, data)
       IN  IF r.exc = "none"
           THEN /\ data_list' = r.list
                /\ stage' = [k \in 1..Len(r.list) |-> "extracted"]
                /\ scaled_by' = [k \in 1..Len(r.list) |-> None]
                /\ pc' = "read_result"
                /\ err' = err
           ELSE /\ Raise(r.exc)
                /\ UNCHANGED <<data_list, stage, scaled_by>>
    /\ UNCHANGED <<caller, parameters, data, validated, idx, norm_local, reads, saved>>

\* DataReduction.result: entry of __calculate
ReadResult ==
    /\ pc = "read_result"
    /\ idx' = 1
    /\ stage' = [k \in 1..Len(data_list) |-> "extracted"]
    /\ scaled_by' = [k \in 1..Len(data_list) |-> None]
    /\ pc' = "calc_q"
    /\ UNCHANGED <<caller, parameters, data, validated, data_list, norm_local, reads,
                   err, saved>>

\* a faulty first step that goes on to R without writing Q and dQ
CalcQ_skipped ==
    /\ pc = "calc_q"
    /\ stage' = [stage EXCEPT ![idx] = "Q"]
    /\ pc' = "calc_r"
    /\ UNCHANGED <<caller, parameters, data, validated, data_list, idx, norm_local,
                   reads, scaled_by, err, saved>>

\* __calculate lines 148-152: Q and dQ of dataset idx
CalcQ ==
    /\ pc = "calc_q"
    /\ LET ds == data_list[idx]
           is == ds.measurement.instrument_settings
           q == [i \in 1..Len(ds.theta) |->
                   q_with_resolution_from_slits(ds.theta[i], is.wavelength,
                                                is.slit_configuration,
                                                "WAVELENGTH_RESOLUTION")]
       IN  data_list' = [data_list EXCEPT
                           ![idx].result.Q = [i \in 1..Len(q) |-> q[i][1]],
                           ![idx].result.dQ = [i \in 1..Len(q) |-> q[i][2]]]
    /\ stage' = [stage EXCEPT ![idx] = "Q"]
    /\ pc' = "calc_r"
    /\ UNCHANGED <<caller, parameters, data, validated, idx, norm_local, reads,
                   scaled_by, err, saved>>

\* a faulty step 4 that keeps the R and dR an earlier read left in the dataset
CalcR_once ==
    /\ pc = "calc_r"
    /\ LET ds == data_list[idx]
           corr == correction(parameters, ds)
           norm_coefficient == normalisation(parameters, ds)
       IN  IF corr.exc # "none"
           THEN /\ Raise(corr.exc)
                /\ UNCHANGED <<data_list, norm_local, stage>>
           ELSE /\ data_list' = IF ds.result.R # None THEN data_list
                                ELSE [data_list EXCEPT
                     ![idx].result.R = [i \in 1..Len(ds.counts) |->
                         Mul(Mul(ds.counts[i], corr.coef[i]), norm_coefficient[i])],
                     ![idx].result.dR = [i \in 1..Len(ds.counts) |->
                         SqScale(SqScale(ds.e_counts[i], corr.coef[i]), norm_coefficient[i])]]
                /\ norm_local' = norm_coefficient
                /\ stage' = [stage EXCEPT ![idx] = "R"]
                /\ pc' = "calc_bg"
                /\ err' = err
    /\ UNCHANGED <<caller, parameters, data, validated, idx, reads, scaled_by, saved>>

\* a faulty step 4 whose R shares its storage with counts
CalcR_aliased ==
    /\ pc = "calc_r"
    /\ LET ds == data_list[idx]
           corr == correction(parameters, ds)
           norm_coefficient == normalisation(parameters, ds)
           R == [i \in 1..Len(ds.counts) |->
                   Mul(Mul(ds.counts[i], corr.coef[i]), norm_coefficient[i])]
       IN  IF corr.exc # "none"
           THEN /\ Raise(corr.exc)
                /\ UNCHANGED <<data_list, norm_local, stage>>
           ELSE /\ data_list' = [data_list EXCEPT
                     ![idx].counts = R,
                     ![idx].result.R = R,
                     ![idx].result.dR = [i \in 1..Len(ds.counts) |->
                         SqScale(SqScale(ds.e_counts[i], corr.coef[i]), norm_coefficient[i])]]
                /\ norm_local' = norm_coefficient
                /\ stage' = [stage EXCEPT ![idx] = "R"]
                /\ pc' = "calc_bg"
                /\ err' = err
    /\ UNCHANGED <<caller, parameters, data, validated, idx, reads, scaled_by, saved>>

\* a faulty step 4 that scales the R an earlier read left in the dataset
CalcR_accumulating ==
    /\ pc = "calc_r"
    /\ LET ds == data_list[idx]
           corr == correction(parameters, ds)
           norm_coefficient == normalisation(parameters, ds)
           R0 == IF ds.result.R # None THEN ds.result.R ELSE ds.counts
       IN  IF corr.exc # "none"
           THEN /\ Raise(corr.exc)
                /\ UNCHANGED <<data_list, norm_local, stage>>
           ELSE /\ data_list' = [data_list EXCEPT
                     ![idx].result.R = [i \in 1..Len(ds.counts) |->
                         Mul(Mul(R0[i], corr.coef[i]), norm_coefficient[i])],
                     ![idx].result.dR = [i \in 1..Len(ds.counts) |->
                         SqScale(SqScale(ds.e_counts[i], corr.coef[i]), norm_coefficient[i])]]
                /\ norm_local' = norm_coefficient
                /\ stage' = [stage EXCEPT ![idx] = "R"]
                /\ pc' = "calc_bg"
                /\ err' = err
    /\ UNCHANGED <<caller, parameters, data, validated, idx, reads, scaled_by, saved>>

\* __calculate lines 154-157: the two coefficients, then R and dR of dataset idx
CalcR ==
    /\ pc = "calc_r"
    /\ LET ds == data_list[idx]
           corr == correction(parameters, ds)
           norm_coefficient == normalisation(parameters, ds)
       IN  IF corr.exc # "none"
           THEN /\ Raise(corr.exc)
                /\ UNCHANGED <<data_list, norm_local, stage>>
           ELSE /\ data_list' = [data_list EXCEPT
                     ![idx].result.R = [i \in 1..Len(ds.counts) |->
                         Mul(Mul(ds.counts[i], corr.coef[i]), norm_coefficient[i])],
                     ![idx].result.dR = [i \in 1..Len(ds.counts) |->
                         SqScale(SqScale(ds.e_counts[i], corr.coef[i]), norm_coefficient[i])]]
                /\ norm_local' = norm_coefficient
                /\ stage' = [stage EXCEPT ![idx] = "R"]
                /\ pc' = "calc_bg"
                /\ err' = err
    /\ UNCHANGED <<caller, parameters, data, validated, idx, reads, scaled_by, saved>>

\* __calculate line 158: __background_correction of dataset idx
CalcBackground ==
    /\ pc = "calc_bg"
    /\ LET r == background_correction(parameters, data_list[idx], norm_local)
       IN  /\ data_list' = [data_list EXCEPT ![idx].result.R = r.R, ![idx].result.dR = r.dR]
           /\ IF r.exc # "none"
              THEN /\ Raise(r.exc)
                   /\ stage' = stage
              ELSE /\ stage' = [stage EXCEPT ![idx] = "background"]
                   /\ pc' = "calc_int"
                   /\ err' = err
    /\ UNCHANGED <<caller, parameters, data, validated, idx, norm_local, reads,
                   scaled_by, saved>>

\* __calculate line 159: __intensity_correction of dataset idx, then the loop advances
CalcIntensity ==
    /\ pc = "calc_int"
    /\ LET r == intensity_correction(parameters, data_list[idx])
       IN  /\ data_list' = [data_list EXCEPT ![idx].result.R = r.R, ![idx].result.dR = r.dR]
           /\ IF r.exc # "none"
              THEN /\ Raise(r.exc)
                   /\ UNCHANGED <<stage, idx>>
              ELSE /\ stage' = [stage EXCEPT ![idx] = "intensity"]
                   /\ idx' = idx + 1
                   /\ pc' = loop_next(idx, Len(data_list))
                   /\ err' = err
    /\ UNCHANGED <<caller, parameters, data, validated, norm_local, reads, scaled_by, saved>>

\* __calculate lines 161-165: the global-maximum pass
CalcGlobal ==
    /\ pc = "calc_global"
    /\ LET r == global_pass(parameters, data_list)
       IN  /\ data_list' = r.list
           /\ IF r.exc # "none"
              THEN /\ Raise(r.exc)
                   /\ scaled_by' = scaled_by
              ELSE /\ scaled_by' = [k \in 1..Len(data_list) |-> r.max_value]
                   /\ pc' = "calc_psd"
                   /\ err' = err
    /\ UNCHANGED <<caller, parameters, data, validated, idx, norm_local, reads, stage, saved>>

\* __calculate lines 167-168, then result returns data_list
CalcReturn ==
    /\ pc = "calc_psd"
    /\ LET e == psd_region_check(parameters)
       IN  IF e # "none"
           THEN /\ Raise(e)
                /\ reads' = reads
           ELSE /\ reads' = reads + 1
                /\ pc' = "returned"
                /\ err' = err
    /\ UNCHANGED <<caller, parameters, data, validated, data_list, idx, norm_local,
                   stage, scaled_by, saved>>

\* what each caller does with the list result returned: update_preview plots it;
\* run_conversion_and_save plots it and calls create_orso, which reads result
\* again; main and create_orso hand it to OrsoData(...).save
Returned ==
    /\ pc = "returned"
    /\ caller \in {"cli", "preview", "save"}
    /\ pc' = CASE caller = "preview" -> "done"
               [] caller = "cli" -> "save_orso"
               [] caller = "save" /\ reads = 1 -> "read_result"
               [] caller = "save" /\ reads > 1 -> "save_orso"
    /\ UNCHANGED <<caller, parameters, data, validated, data_list, idx, norm_local,
                   reads, stage, scaled_by, err, saved>>

\* OrsoData(...).save(filename): save_orso(self.orso_dataset, ...)
SaveOrso ==
    /\ pc = "save_orso"
    /\ saved' = orso_dataset(data_list, parameters)
    /\ pc' = "done"
    /\ UNCHANGED <<caller, parameters, data, validated, data_list, idx, norm_local,
                   reads, stage, scaled_by, err>>

(***************************************************************************)
(* Inputs                                                                  *)
(***************************************************************************)
SlitConfiguration ==
    [slit1_width |-> One, slit2_width |-> One,
     slit1_position |-> Rat(-5), slit2_position |-> Rat(-1), units |-> "mm"]

SampleValue == [name |-> "sample", length |-> Rat(2), thickness |-> One]

\* incident angle of scan row r, in degrees: 15, 30, 90, 105, ...
ThetaAt(r) == IF r = 1 THEN Rat(15) ELSE IF r = 2 THEN Rat(30) ELSE Rat(45 + 15 * r)

FlatFrame(c) == [px \in Pixels |-> c]
GradientFrame == [px \in Pixels |-> 1 + px[1] * ImgSize + px[2]]

\* what one scan row records besides the angle and the flipper states
RowKinds ==
    << [detector |-> Rat(100), monitor |-> Rat(1000), time |-> One, frame |-> FlatFrame(4)],
       [detector |-> One,      monitor |-> Rat(1000), time |-> Rat(2), frame |-> GradientFrame] >>

\* the kinds of the rows of a scan: all of one kind, or the two kinds in turn
KindPatterns ==
    { [r \in 1..NRows |-> RowKinds[1]],
      [r \in 1..NRows |-> RowKinds[2]],
      [r \in 1..NRows |-> RowKinds[1 + (r % 2)]],
      [r \in 1..NRows |-> RowKinds[2 - (r % 2)]] }

\* the states of the first spin flipper over the rows of a scan
FlipPatterns ==
    { [r \in 1..NRows |-> <<IF r % 2 = 1 THEN POLARISATION_STATES.m ELSE POLARISATION_STATES.p>>],
      [r \in 1..NRows |-> <<IF r % 2 = 1 THEN POLARISATION_STATES.p ELSE POLARISATION_STATES.m>>],
      [r \in 1..NRows |-> <<POLARISATION_STATES.m>>] }

ScanRow(r, flip, kind) ==
    [name \in {"flip", "theta", "detector", "2Ddata", "monitor", "time"} |->
        CASE name = "flip" -> flip
          [] name = "theta" -> ThetaAt(r)
          [] name = "detector" -> kind.detector
          [] name = "2Ddata" -> kind.frame
          [] name = "monitor" -> kind.monitor
          [] name = "time" -> kind.time]

File(devs, pol, flips, kinds) ==
    [file_path |-> "scan.dat",
     detectors_list |-> {DEFAULT_DETECTOR, "2Ddata"},
     dev_list |-> devs,
     polarisation |-> pol,
     rows |-> [r \in 1..NRows |-> ScanRow(r, flips[r], kinds[r])],
     wavelength |-> Rat(4),
     slit_configuration |-> SlitConfiguration,
     owner |-> "owner", experiment |-> "experiment", sample |-> SampleValue]

\* list(combinations): the elements of a set in any order
Orderings(S) ==
    {s \in [1..Cardinality(S) -> S] : \A x \in S : \E i \in 1..Cardinality(S) : s[i] = x}

\* input files with no spin flipper among the scan devices
UnpolarizedFiles(Kinds) ==
    { File({"theta"}, pol, [r \in 1..NRows |-> <<>>], kinds) :
      pol \in Orderings(get_polarisation({"theta"})), kinds \in Kinds }

\* input files that scan the first spin flipper, their channels listed in one
\* of the orders Orders
PolarizedFiles(Orders, Kinds) ==
    { File({"theta", POLARISATION_DEVICES[1]}, pol, flips, kinds) :
      pol \in Orders, flips \in FlipPatterns, kinds \in Kinds }

\* the two channels of such a file, in either order
ChannelOrders == Orderings(get_polarisation({"theta", POLARISATION_DEVICES[1]}))

SignalRegion == <<0, 0, 0, 0>>
BackgroundRegions == {<<0, 1, 0, 0>>, <<1, 1, 0, 1>>}

ReductionConfigs(Pol) ==
    { [foot_print_correction |-> fp, absorption_correction |-> ab,
       polarisation_correction |-> pl, mu_type |-> "constValue",
       mu_enum |-> "glass", mu_value |-> Zero] :
      fp \in BOOLEAN, ab \in BOOLEAN, pl \in Pol }

NormalisationConfigs(Toggles, Values) ==
    { [time |-> t, monitor |-> m, intensity_norm |-> n, intensity_norm_type |-> ty,
       intensity_value |-> v, intensity_point_number |-> 1, intensity_region |-> None] :
      t \in Toggles, m \in Toggles, n \in BOOLEAN,
      ty \in {"constValue", "maxValue", "maxValueGlobal", "psdRegion"}, v \in Values }

BackgroundConfigs(Regions) ==
    { [use_correction |-> u, correction_type |-> ty, file |-> None,
       value |-> Frac(1, 100), region |-> rg] :
      u \in BOOLEAN, ty \in {"constValue", "psdRegion", "extraFile"}, rg \in Regions }

DataSourceConfigs(Detectors, Regions) ==
    { [detector |-> dt, region |-> rg] : dt \in Detectors, rg \in Regions }

CorrectionParameters(Sources, Norms, Backgrounds, Reductions) ==
    { [data_source |-> ds, normalisation |-> nm, background |-> bg, reduction |-> rd,
       program_call |-> "call"] :
      ds \in Sources, nm \in Norms, bg \in Backgrounds, rd \in Reductions }

\* the three entry points, over every configuration that steers the control flow
AppParameters ==
    CorrectionParameters(
        DataSourceConfigs({DEFAULT_DETECTOR, "2Ddata", "nodetector"}, {None, SignalRegion}),
        {nm \in NormalisationConfigs({TRUE}, {Rat(2)}) :
            nm.intensity_norm \/ nm.intensity_norm_type = "maxValueGlobal"},
        BackgroundConfigs({None, <<1, 1, 0, 1>>}),
        {rd \in ReductionConfigs(BOOLEAN) :
            ~rd.foot_print_correction /\ ~rd.absorption_correction})

\* the same scan recorded without the 2D detector
PointOnly(d) == [d EXCEPT !.detectors_list = {DEFAULT_DETECTOR}]

AppFiles ==
    UnpolarizedFiles({[r \in 1..NRows |-> RowKinds[1]]})
    \cup {PointOnly(d) : d \in UnpolarizedFiles({[r \in 1..NRows |-> RowKinds[1]]})}
    \cup {d \in PolarizedFiles(ChannelOrders, {[r \in 1..NRows |-> RowKinds[1]]}) :
            d.rows[1]["flip"] = <<POLARISATION_STATES.m>>
            /\ d.rows[NRows]["flip"] # d.rows[1]["flip"]}

Init ==
    /\ caller \in {"cli", "preview", "save"}
    /\ parameters \in AppParameters
    /\ data \in AppFiles
    /\ pc = IF caller = "preview" THEN "construct" ELSE "check_config"
    /\ validated = FALSE
    /\ data_list = <<>>
    /\ idx = 0
    /\ norm_local = <<>>
    /\ reads = 0
    /\ stage = <<>>
    /\ scaled_by = <<>>
    /\ err = "none"
    /\ saved = None

Calculate ==
    \/ ReadResult
    \/ CalcQ
    \/ CalcR
    \/ CalcBackground
    \/ CalcIntensity
    \/ CalcGlobal
    \/ CalcReturn

Next ==
    \/ CheckConfig
    \/ Construct
    \/ Calculate
    \/ Returned
    \/ SaveOrso

Spec == Init /\ [][Next]_vars

\* configurations of the pipeline itself
CalcParameters ==
    CorrectionParameters(
        {[detector |-> DEFAULT_DETECTOR, region |-> None],
         [detector |-> "2Ddata", region |-> SignalRegion]},
        {nm \in NormalisationConfigs(BOOLEAN, {One, Rat(2)}) :
            nm.intensity_value = One
            \/ (nm.intensity_norm /\ nm.intensity_norm_type = "constValue")},
        {bg \in BackgroundConfigs({None} \cup BackgroundRegions) :
            IF bg.use_correction /\ bg.correction_type = "psdRegion"
            THEN bg.region # None
            ELSE bg.region = None /\ (bg.use_correction \/ bg.correction_type = "constValue")},
        {rd \in ReductionConfigs(BOOLEAN) :
            /\ rd.foot_print_correction = rd.absorption_correction
            /\ rd.polarisation_correction => ~rd.foot_print_correction})

CalcFiles ==
    UnpolarizedFiles(KindPatterns)
    \cup PolarizedFiles({pol \in ChannelOrders : pol[1] = <<"m", "o">>},
                        {[r \in 1..NRows |-> RowKinds[1 + (r % 2)]]})

\* a DataReduction just constructed on (data, parameters), about to be read
InitCalc ==
    /\ caller = "direct"
    /\ parameters \in CalcParameters
    /\ data \in CalcFiles
    /\ LET r == create_data_list(parameters, data)
       IN  r.exc = "none" /\ data_list = r.list
    /\ pc = "read_result"
    /\ validated = FALSE
    /\ idx = 0
    /\ norm_local = <<>>
    /\ reads = 0
    /\ stage = [k \in 1..Len(data_list) |-> "extracted"]
    /\ scaled_by = [k \in 1..Len(data_list) |-> None]
    /\ err = "none"
    /\ saved = None

SpecCalc == InitCalc /\ [][Calculate]_vars

(***************************************************************************)
(* The loop of __calculate with its iterations run as independent workers, *)
(* one per dataset, their steps interleaved in any order; norm_local holds *)
(* each worker's local norm_coefficient.  The pass after the loop starts   *)
(* once every worker is through line 159.                                  *)
(***************************************************************************)
\* lines 148-152 for dataset k
ParQ(k) ==
    /\ pc = "parallel"
    /\ stage[k] = "extracted"
    /\ LET ds == data_list[k]
           is == ds.measurement.instrument_settings
           q == [i \in 1..Len(ds.theta) |->
                   q_with_resolution_from_slits(ds.theta[i], is.wavelength,
                                                is.slit_configuration,
                                                "WAVELENGTH_RESOLUTION")]
       IN  data_list' = [data_list EXCEPT
                           ![k].result.Q = [i \in 1..Len(q) |-> q[i][1]],
                           ![k].result.dQ = [i \in 1..Len(q) |-> q[i][2]]]
    /\ stage' = [stage EXCEPT ![k] = "Q"]
    /\ UNCHANGED <<caller, parameters, data, pc, validated, idx, norm_local, reads,
                   scaled_by, err, saved>>

\* lines 154-157 for dataset k
ParR(k) ==
    /\ pc = "parallel"
    /\ stage[k] = "Q"
    /\ LET ds == data_list[k]
           corr == correction(parameters, ds)
           norm_coefficient == normalisation(parameters, ds)
       IN  IF corr.exc # "none"
           THEN /\ Raise(corr.exc)
                /\ UNCHANGED <<data_list, norm_local, stage>>
           ELSE /\ data_list' = [data_list EXCEPT
                     ![k].result.R = [i \in 1..Len(ds.counts) |->
                         Mul(Mul(ds.counts[i], corr.coef[i]), norm_coefficient[i])],
                     ![k].result.dR = [i \in 1..Len(ds.counts) |->
                         SqScale(SqScale(ds.e_counts[i], corr.coef[i]), norm_coefficient[i])]]
                /\ norm_local' = [norm_local EXCEPT ![k] = norm_coefficient]
                /\ stage' = [stage EXCEPT ![k] = "R"]
                /\ UNCHANGED <<pc, err>>
    /\ UNCHANGED <<caller, parameters, data, validated, idx, reads, scaled_by, saved>>

\* line 158 for dataset k
ParBackground(k) ==
    /\ pc = "parallel"
    /\ stage[k] = "R"
    /\ LET r == background_correction(parameters, data_list[k], norm_local[k])
       IN  /\ data_list' = [data_list EXCEPT ![k].result.R = r.R, ![k].result.dR = r.dR]
           /\ IF r.exc # "none"
              THEN /\ Raise(r.exc)
                   /\ stage' = stage
              ELSE /\ stage' = [stage EXCEPT ![k] = "background"]
                   /\ UNCHANGED <<pc, err>>
    /\ UNCHANGED <<caller, parameters, data, validated, idx, norm_local, reads,
                   scaled_by, saved>>

\* line 159 for dataset k
ParIntensity(k) ==
    /\ pc = "parallel"
    /\ stage[k] = "background"
    /\ LET r == intensity_correction(parameters, data_list[k])
       IN  /\ data_list' = [data_list EXCEPT ![k].result.R = r.R, ![k].result.dR = r.dR]
           /\ IF r.exc # "none"
              THEN /\ Raise(r.exc)
                   /\ stage' = stage
              ELSE /\ stage' = [stage EXCEPT ![k] = "intensity"]
                   /\ UNCHANGED <<pc, err>>
    /\ UNCHANGED <<caller, parameters, data, validated, idx, norm_local, reads,
                   scaled_by, saved>>

\* a faulty barrier that opens as soon as every dataset has its R of step 4
Barrier_early ==
    /\ pc = "parallel"
    /\ \A k \in 1..Len(data_list) : stage[k] \in {"R", "background", "intensity"}
    /\ pc' = "calc_global"
    /\ UNCHANGED <<caller, parameters, data, validated, data_list, idx, norm_local,
                   reads, stage, scaled_by, err, saved>>

\* the end of the for-loop: line 161 is reached when every iteration is done
Barrier ==
    /\ pc = "parallel"
    /\ \A k \in 1..Len(data_list) : stage[k] = "intensity"
    /\ pc' = "calc_global"
    /\ UNCHANGED <<caller, parameters, data, validated, data_list, idx, norm_local,
                   reads, stage, scaled_by, err, saved>>

ParParameters ==
    {p \in CalcParameters : p.normalisation.intensity_norm /\ p.normalisation.monitor}

\* two-channel files, the channels listed in either order
ParFiles ==
    PolarizedFiles(ChannelOrders, {[r \in 1..NRows |-> RowKinds[1 + (r % 2)]]})

InitPar ==
    /\ caller = "direct"
    /\ parameters \in ParParameters
    /\ data \in ParFiles
    /\ LET r == create_data_list(parameters, data)
       IN  r.exc = "none" /\ data_list = r.list
    /\ pc = "parallel"
    /\ validated = FALSE
    /\ idx = 0
    /\ norm_local = [k \in 1..Len(data_list) |-> <<>>]
    /\ reads = 0
    /\ stage = [k \in 1..Len(data_list) |-> "extracted"]
    /\ scaled_by = [k \in 1..Len(data_list) |-> None]
    /\ err = "none"
    /\ saved = None

NextPar ==
    \/ \E k \in 1..Len(data_list) : ParQ(k)
    \/ \E k \in 1..Len(data_list) : ParR(k)
    \/ \E k \in 1..Len(data_list) : ParBackground(k)
    \/ \E k \in 1..Len(data_list) : ParIntensity(k)
    \/ Barrier
    \/ CalcGlobal
    \/ CalcReturn

SpecPar == InitPar /\ [][NextPar]_vars

(***************************************************************************)
(* The provider on its own: a file is opened, its channel list is read     *)
(* (Metadata.polarisation) and a DataReduction is constructed on it.       *)
(***************************************************************************)
\* the scan-device lists: the angle, with any of the spin devices
DeviceLists ==
    { {"theta"} \cup {POLARISATION_DEVICES[j] : j \in J} : J \in SUBSET (1..2) }

\* every recording of the spin devices of a device list over the rows of a
\* scan: per row one state per device present, in the order of POLARISATION_DEVICES
FlipRecordings(devs) ==
    LET present == Cardinality(devs \cap {POLARISATION_DEVICES[j] : j \in 1..2})
    IN  [1..NRows -> [1..present -> {POLARISATION_STATES.m, POLARISATION_STATES.p}]]

\* opened files, their channel list not read yet
ProviderFiles ==
    UNION { { File(devs, None, flips, [r \in 1..NRows |-> RowKinds[1 + (r % 2)]]) :
              flips \in FlipRecordings(devs) } : devs \in DeviceLists }

ProviderParameters ==
    {p \in CalcParameters :
        /\ ~p.background.use_correction
        /\ ~p.reduction.foot_print_correction
        /\ ~p.reduction.polarisation_correction
        /\ p.normalisation.monitor /\ p.normalisation.time
        /\ p.normalisation.intensity_norm
        /\ p.normalisation.intensity_norm_type = "constValue"
        /\ p.normalisation.intensity_value = One}

InitProvider ==
    /\ caller = "direct"
    /\ parameters \in ProviderParameters
    /\ data \in ProviderFiles
    /\ pc = "open"
    /\ validated = FALSE
    /\ data_list = <<>>
    /\ idx = 0
    /\ norm_local = <<>>
    /\ reads = 0
    /\ stage = <<>>
    /\ scaled_by = <<>>
    /\ err = "none"
    /\ saved = None

\* Metadata.polarisation: get_polarisation(self.dev_list), the set listed in
\* whatever order list() takes it
ReadPolarisation ==
    /\ pc = "open"
    /\ \E pol \in Orderings(get_polarisation(data.dev_list)) :
          data' = [data EXCEPT !.polarisation = pol]
    /\ pc' = "construct"
    /\ UNCHANGED <<caller, parameters, validated, data_list, idx, norm_local, reads,
                   stage, scaled_by, err, saved>>

NextProvider ==
    \/ ReadPolarisation
    \/ Construct

SpecProvider == InitProvider /\ [][NextProvider]_vars

(***************************************************************************)
(* The pipeline on scans at angles where the absorption path is rational   *)
(***************************************************************************)
\* absorption coefficients, in units of ln 2: none, and ln(2)/8
MuValues == {Zero, Frac(1, 8)}

AbsParameters ==
    { [p EXCEPT !.reduction.absorption_correction = ab, !.reduction.mu_value = mu] :
      p \in {q \in CalcParameters :
                /\ q.data_source.detector # "2Ddata"
                /\ ~q.reduction.foot_print_correction
                /\ ~q.reduction.polarisation_correction
                /\ q.background.correction_type = "constValue"
                /\ q.normalisation.intensity_norm_type \in {"constValue", "maxValue"}},
      ab \in BOOLEAN, mu \in MuValues }

\* unpolarized scans that alternate between 90 and 0 degrees: a row in the
\* deep-penetration and a row in the grazing regime
AbsFiles ==
    { [d EXCEPT !.rows = [r \in 1..NRows |->
                            [d.rows[r] EXCEPT !["theta"] =
                                IF r % 2 = 1 THEN Rat(90) ELSE Zero]]] :
      d \in UnpolarizedFiles(KindPatterns) }

InitAbs ==
    /\ caller = "direct"
    /\ parameters \in AbsParameters
    /\ data \in AbsFiles
    /\ LET r == create_data_list(parameters, data)
       IN  r.exc = "none" /\ data_list = r.list
    /\ pc = "read_result"
    /\ validated = FALSE
    /\ idx = 0
    /\ norm_local = <<>>
    /\ reads = 0
    /\ stage = [k \in 1..Len(data_list) |-> "extracted"]
    /\ scaled_by = [k \in 1..Len(data_list) |-> None]
    /\ err = "none"
    /\ saved = None

SpecAbs == InitAbs /\ [][Calculate]_vars

(***************************************************************************)
(* The pipeline on scans whose monitor and time readings include zero and  *)
(* values on both sides of safety_div's threshold                          *)
(***************************************************************************)
\* monitor and time readings of magnitude below 1e-12: 0, 5e-13 and -5e-13
NearZeroReadings == {Zero, WithEx(<<5, 1>>, -13), WithEx(<<-5, 1>>, -13)}

\* a point-detector row with the given monitor and time readings
ReadingKind(m, t) ==
    [detector |-> Rat(100), monitor |-> m, time |-> t, frame |-> FlatFrame(4)]

\* rows whose readings are near zero, on the threshold 1e-12, or ordinary
ReadingKinds ==
    { ReadingKind(m, t) : m \in NearZeroReadings \cup {WithEx(One, -12), Rat(1000)},
                          t \in NearZeroReadings \cup {Rat(2)} }

NormParameters ==
    { q \in CalcParameters :
        /\ q.data_source.detector # "2Ddata"
        /\ ~q.reduction.foot_print_correction
        /\ ~q.reduction.polarisation_correction
        /\ ~q.background.use_correction
        /\ q.normalisation.intensity_norm_type \in {"constValue", "maxValue"} }

\* unpolarized scans whose odd rows are of one kind and whose even rows of another
NormFiles ==
    UnpolarizedFiles({ [r \in 1..NRows |-> IF r % 2 = 1 THEN a ELSE b] :
                       a \in ReadingKinds,
                       b \in {ReadingKind(WithEx(One, -12), Rat(2)), ReadingKind(Rat(1000), Zero)} })

InitNorm ==
    /\ caller = "direct"
    /\ parameters \in NormParameters
    /\ data \in NormFiles
    /\ LET r == create_data_list(parameters, data)
       IN  r.exc = "none" /\ data_list = r.list
    /\ pc = "read_result"
    /\ validated = FALSE
    /\ idx = 0
    /\ norm_local = <<>>
    /\ reads = 0
    /\ stage = [k \in 1..Len(data_list) |-> "extracted"]
    /\ scaled_by = [k \in 1..Len(data_list) |-> None]
    /\ err = "none"
    /\ saved = None

SpecNorm == InitNorm /\ [][Calculate]_vars

(***************************************************************************)
(* The pipeline on scans over a range of incident angles and three slit    *)
(* geometries                                                              *)
(***************************************************************************)
\* slit geometries for a sample of length 2: the beam fully on the sample from
\* 90 degrees with a plateau up to 30 degrees; fully on the sample from 30
\* degrees without a plateau; wider than the sample at every angle
SlitGeometries ==
    { SlitConfiguration,
      [SlitConfiguration EXCEPT !.slit1_width = Frac(5, 7), !.slit2_width = Frac(1, 7),
                                !.slit1_position = Rat(-3)],
      [SlitConfiguration EXCEPT !.slit1_position = Rat(-3)] }

\* incident angles of a scan, in degrees
ScanAngles == {Zero, Rat(5), Rat(15), Rat(30), Rat(45), Rat(60), Rat(90), Rat(120)}

FootParameters ==
    { q \in CalcParameters :
        /\ q.data_source.detector # "2Ddata"
        /\ ~q.reduction.polarisation_correction
        /\ ~q.background.use_correction
        /\ q.normalisation.intensity_norm_type \in {"constValue", "maxValue"} }

\* unpolarized scans whose odd rows are at one angle and whose even rows at another
FootFiles ==
    { [d EXCEPT !.slit_configuration = g,
                !.rows = [r \in 1..NRows |->
                            [d.rows[r] EXCEPT !["theta"] = IF r % 2 = 1 THEN a ELSE b]]] :
      d \in UnpolarizedFiles({[r \in 1..NRows |-> RowKinds[1]]}),
      g \in SlitGeometries, a \in ScanAngles, b \in ScanAngles }

InitFoot ==
    /\ caller = "direct"
    /\ parameters \in FootParameters
    /\ data \in FootFiles
    /\ LET r == create_data_list(parameters, data)
       IN  r.exc = "none" /\ data_list = r.list
    /\ pc = "read_result"
    /\ validated = FALSE
    /\ idx = 0
    /\ norm_local = <<>>
    /\ reads = 0
    /\ stage = [k \in 1..Len(data_list) |-> "extracted"]
    /\ scaled_by = [k \in 1..Len(data_list) |-> None]
    /\ err = "none"
    /\ saved = None

SpecFoot == InitFoot /\ [][Calculate]_vars

(***************************************************************************)
(* The pipeline under rectangles of every size and position, those         *)
(* reaching one pixel past the edge of the detector image included         *)
(***************************************************************************)
\* rectangles <<y_min, y_max, x_min, x_max>> with y_min <= y_max and x_min <= x_max
Rectangles ==
    { r \in (0..ImgSize) \X (0..ImgSize) \X (0..ImgSize) \X (0..ImgSize) :
        r[1] <= r[2] /\ r[3] <= r[4] }

\* the point detector, or the 2D detector with a signal rectangle that starts
\* at the first pixel and, under region-mode background, any background rectangle
RegionParameters ==
    { [q EXCEPT !.data_source.region =
                    IF q.data_source.detector = "2Ddata" THEN sg ELSE None,
                !.background.region =
                    IF q.data_source.detector = "2Ddata" /\ q.background.use_correction
                    THEN bg ELSE q.background.region] :
      q \in { c \in CalcParameters :
                /\ ~c.reduction.foot_print_correction
                /\ ~c.reduction.polarisation_correction
                /\ ~c.normalisation.monitor /\ ~c.normalisation.time
                /\ ~c.normalisation.intensity_norm
                /\ c.normalisation.intensity_norm_type = "constValue"
                /\ c.background.correction_type \in {"constValue", "psdRegion"}
                /\ c.background.region \in {None, <<0, 1, 0, 0>>} },
      sg \in {r \in Rectangles : r[1] = 0 /\ r[3] = 0},
      bg \in Rectangles }

\* unpolarized scans in which flat and graded frames alternate
RegionFiles ==
    UnpolarizedFiles({[r \in 1..NRows |-> RowKinds[1 + (r % 2)]],
                      [r \in 1..NRows |-> RowKinds[2 - (r % 2)]]})

InitRegion ==
    /\ caller = "direct"
    /\ parameters \in RegionParameters
    /\ data \in RegionFiles
    /\ LET r == create_data_list(parameters, data)
       IN  r.exc = "none" /\ data_list = r.list
    /\ pc = "read_result"
    /\ validated = FALSE
    /\ idx = 0
    /\ norm_local = <<>>
    /\ reads = 0
    /\ stage = [k \in 1..Len(data_list) |-> "extracted"]
    /\ scaled_by = [k \in 1..Len(data_list) |-> None]
    /\ err = "none"
    /\ saved = None

SpecRegion == InitRegion /\ [][Calculate]_vars

(***************************************************************************)
(* Properties                                                              *)
(***************************************************************************)
Channels == 1..Len(data_list)
Points(k) == 1..Len(data_list[k].counts)

PointDetector == parameters.data_source.detector # "2Ddata"

\* the coefficients of steps 2 and 3 written out from the configuration
ExpectedCorrection(k, i) ==
    LET ds == data_list[k]
        fp == IF parameters.reduction.foot_print_correction
              THEN footprint_correction_two_slits(
                       ds.theta[i], ds.measurement.instrument_settings.slit_configuration,
                       ds.header.sample.length)
              ELSE One
        ab == IF parameters.reduction.absorption_correction
              THEN absorption_correction(ds.theta[i],
                                         ds.measurement.instrument_settings.wavelength,
                                         parameters.reduction.mu_value, ds.header.sample)
              ELSE One
    IN  Mul(fp, ab)

ExpectedNormalisation(k, i) ==
    LET ds == data_list[k]
        m == IF parameters.normalisation.monitor THEN Inv(ds.monitor[i]) ELSE One
        t == IF parameters.normalisation.time THEN Inv(ds.time[i]) ELSE One
    IN  Mul(m, t)

\* R and dR of step 4, from the raw arrays
ExpectedR(k, i) ==
    Mul(data_list[k].counts[i], Mul(ExpectedCorrection(k, i), ExpectedNormalisation(k, i)))

ExpectedDR(k, i) ==
    Mul(data_list[k].e_counts[i],
        SqOf(Mul(ExpectedCorrection(k, i), ExpectedNormalisation(k, i))))

\* the configuration of the spec's first concrete scenario
MonitorOnlyScenario ==
    /\ PointDetector
    /\ parameters.normalisation.monitor
    /\ ~parameters.reduction.foot_print_correction
    /\ ~parameters.reduction.absorption_correction
    /\ ~parameters.background.use_correction
    /\ parameters.normalisation.intensity_norm
    /\ parameters.normalisation.intensity_norm_type = "constValue"
    /\ parameters.normalisation.intensity_value = One

\* C1: right after step 4 of a dataset, R = counts x correction x normalization
\* and dR = count uncertainty x the same coefficients at every scan point; and
\* in the monitor-only scenario with times equal to 1 the returned R is
\* counts / monitor and dR is sqrt(counts) / monitor (100 and 1000 give 0.1, 0.01).
C1_ReflectivityFormula ==
    /\ pc = "calc_bg" =>
          \A i \in Points(idx) :
              /\ data_list[idx].result.R[i] = ExpectedR(idx, i)
              /\ data_list[idx].result.dR[i] = ExpectedDR(idx, i)
    /\ (pc = "returned" /\ MonitorOnlyScenario) =>
          \A k \in Channels : \A i \in Points(k) :
              data_list[k].time[i] = One =>
                  /\ data_list[k].result.R[i]
                       = Div(data_list[k].counts[i], data_list[k].monitor[i])
                  /\ data_list[k].result.dR[i]
                       = Div(data_list[k].counts[i], SqOf(data_list[k].monitor[i]))
                  /\ (data_list[k].counts[i] = Rat(100) /\ data_list[k].monitor[i] = Rat(1000))
                        => /\ data_list[k].result.R[i] = Frac(1, 10)
                           /\ data_list[k].result.dR[i] = SqOf(Frac(1, 100))

C1_Witness ==
    /\ pc = "returned"
    /\ MonitorOnlyScenario
    /\ \E k \in Channels : \E i \in Points(k) :
          /\ data_list[k].counts[i] = Rat(100)
          /\ data_list[k].monitor[i] = Rat(1000)
          /\ data_list[k].time[i] = One
          /\ data_list[k].result.R[i] = Frac(1, 10)

\* C2: the result fields of every dataset start as None and are written in the
\* order Q/dQ, R/dR, background, intensity: R is never set while Q is None, and
\* steps 5 and 6 of a dataset act only on R and dR that step 4 of the same
\* read has just computed from the counts.
C2_FillOrder ==
    /\ \A k \in Channels :
          LET r == data_list[k].result
          IN  /\ (reads = 0 /\ stage[k] = "extracted")
                    => r = [Q |-> None, dQ |-> None, R |-> None, dR |-> None]
              /\ r.R # None => (r.Q # None /\ r.dQ # None)
              /\ (r.Q = None) = (r.dQ = None)
              /\ (r.R = None) = (r.dR = None)
              /\ stage[k] \in {"Q", "R", "background", "intensity"} => r.Q # None
              /\ stage[k] \in {"R", "background", "intensity"} => r.R # None
    /\ pc = "calc_r" => (stage[idx] = "Q" /\ data_list[idx].result.Q # None)
    /\ pc = "calc_bg" =>
          /\ stage[idx] = "R"
          /\ \A i \in Points(idx) : data_list[idx].result.R[i] = ExpectedR(idx, i)
    /\ pc = "calc_int" => stage[idx] = "background"

C2_Witness ==
    /\ pc = "calc_q"
    /\ idx = 2
    /\ reads = 0
    /\ stage[1] = "intensity"
    /\ data_list[1].result.R # None
    /\ data_list[2].result = [Q |-> None, dQ |-> None, R |-> None, dR |-> None]

\* C3: the global-maximum pass is a barrier: it is entered only once every
\* dataset has been through steps 4, 5 and 6, and whenever a dataset has been
\* rescaled by a maximum, every dataset had completed step 6 and all of them
\* were rescaled by that same maximum.
C3_GlobalPassBarrier ==
    /\ pc = "calc_global" =>
          \A k \in Channels : stage[k] = "intensity" /\ data_list[k].result.R # None
    /\ \A k \in Channels :
          scaled_by[k] # None =>
              /\ parameters.normalisation.intensity_norm_type = "maxValueGlobal"
              /\ \A j \in Channels : stage[j] = "intensity" /\ scaled_by[j] = scaled_by[k]

C3_Witness ==
    /\ pc = "calc_psd"
    /\ Len(data_list) = 2
    /\ parameters.normalisation.intensity_norm_type = "maxValueGlobal"
    /\ scaled_by[1] # None
    /\ scaled_by[2] = scaled_by[1]

\* max(R) over all scan points of all datasets (every dataset non-empty)
AllR(list) == [k \in 1..Len(list) |-> NpMax(list[k].result.R)]

\* a step of the global pass that completes in global-maximum mode
GlobalPassStep ==
    /\ pc = "calc_global"
    /\ pc' = "calc_psd"
    /\ parameters.normalisation.intensity_norm_type = "maxValueGlobal"

\* C4 as stated: in global-maximum mode, whenever some R is nonzero before the
\* global pass, the maximum of R over all points of all datasets is 1 after it.
C4_GlobalMaxIsOne ==
    [][(GlobalPassStep
        /\ \E k \in Channels : \E i \in Points(k) : data_list[k].result.R[i] # Zero)
       => NpMax(AllR(data_list')) = One]_vars

\* C4 amended: in global-maximum mode, whenever the largest R before the global
\* pass is positive and finite, the maximum of R over all points of all
\* datasets is 1 after the pass, and no R exceeds 1.
C4_GlobalMaxIsOneWhenPositive ==
    [][(GlobalPassStep
        /\ Less(Zero, NpMax(AllR(data_list)))
        /\ IsFinite(NpMax(AllR(data_list))))
       => /\ NpMax(AllR(data_list')) = One
          /\ \A k \in Channels : \A i \in Points(k) :
                ~Less(One, data_list'[k].result.R[i])]_vars

C4_Witness ==
    /\ pc = "calc_psd"
    /\ parameters.normalisation.intensity_norm_type = "maxValueGlobal"
    /\ Len(data_list) = 2
    /\ scaled_by[1] # None
    /\ Less(Zero, scaled_by[1])
    /\ NpMax(AllR(data_list)) = One
    /\ \E k \in Channels : \E i \in Points(k) : data_list[k].result.R[i] # One

\* C5 as stated: a DataReduction is constructed, on every path, only after
\* check_config has accepted the parameters; and with detector '2Ddata' (present
\* in the file) and region None the run ends in ValueError('Region should be
\* set') and in no other way.
C5_ValidatedBeforeConstruction ==
    /\ pc \in {"read_result", "calc_q", "calc_r", "calc_bg", "calc_int", "calc_global",
               "calc_psd", "returned", "save_orso", "done"} => validated
    /\ (/\ parameters.data_source.detector = "2Ddata"
        /\ parameters.data_source.region = None
        /\ "2Ddata" \in data.detectors_list)
       => \/ pc \in {"check_config", "construct"}
          \/ pc = "failed" /\ err = "ValueError: Region should be set"

\* the four cases of check_config, in the order of the claim
WrongDetectorName == parameters.data_source.detector \notin data.detectors_list

RegionUnset ==
    parameters.data_source.detector = "2Ddata" /\ parameters.data_source.region = None

RegionModeBackground ==
    parameters.background.use_correction /\ parameters.background.correction_type = "psdRegion"

RegionModeOn2D == RegionModeBackground /\ parameters.data_source.detector = "2Ddata"

BackgroundRegionUnset ==
    /\ RegionModeBackground
    /\ parameters.data_source.detector # "2Ddata"
    /\ parameters.background.region = None

ConfigurationError ==
    IF WrongDetectorName THEN "ValueError: Wrong detector name"
    ELSE IF RegionUnset THEN "ValueError: Region should be set"
    ELSE IF RegionModeOn2D
    THEN "ValueError: The background correction request 2Ddata detector name"
    ELSE IF BackgroundRegionUnset THEN "ValueError: Background region should be set"
    ELSE "none"

\* C6: the call of check_config ends in the error of the first of the four
\* cases that holds (wrong detector name, region unset, region-mode background
\* on the 2D detector, background region unset), the four messages differ, it
\* returns normally when none holds, and it changes neither parameters nor data.
C6_CheckConfigErrors ==
    [][pc = "check_config" =>
          /\ parameters' = parameters
          /\ data' = data
          /\ ConfigurationError # "none" =>
                (pc' = "failed" /\ err' = ConfigurationError /\ ~validated')
          /\ ConfigurationError = "none" =>
                (pc' = "construct" /\ err' = "none" /\ validated')
          /\ Cardinality({"ValueError: Wrong detector name",
                          "ValueError: Region should be set",
                          "ValueError: The background correction request 2Ddata detector name",
                          "ValueError: Background region should be set"}) = 4]_vars

C6_Witness ==
    /\ pc = "failed"
    /\ caller = "cli"
    /\ WrongDetectorName /\ RegionUnset /\ RegionModeOn2D
    /\ err = "ValueError: Wrong detector name"

\* the three unimplemented features, as requested by the configuration
PolarisationRequested == parameters.reduction.polarisation_correction

FileBackgroundRequested ==
    parameters.background.use_correction /\ parameters.background.correction_type = "extraFile"

RegionIntensityRequested ==
    /\ parameters.normalisation.intensity_norm
    /\ parameters.normalisation.intensity_norm_type = "psdRegion"

\* what each of the three raises
PolarisationError ==
    correction([parameters EXCEPT !.reduction.polarisation_correction = TRUE],
               data_list[1]).exc

FileBackgroundError ==
    background_correction([parameters EXCEPT !.background.use_correction = TRUE,
                                             !.background.correction_type = "extraFile"],
                          data_list[1], norm_local).exc

RegionIntensityError ==
    psd_region_check([parameters EXCEPT !.normalisation.intensity_norm_type = "psdRegion"])

\* C7 as stated: when one of the three unimplemented features is requested, a
\* read of result returns no list and fails with NotImplementedError only; and
\* the error tells which of the three was hit: the error of a read that failed in
\* the background step is not the one polarisation correction raises, nor the
\* one region-mode intensity raises, and likewise for the other two.
C7_UnimplementedDistinct ==
    /\ (PolarisationRequested \/ FileBackgroundRequested \/ RegionIntensityRequested)
          => /\ pc # "returned"
             /\ reads = 0
             /\ pc = "failed" =>
                   err \in {PolarisationError, FileBackgroundError, RegionIntensityError}
    /\ (pc = "failed" /\ idx \in Channels /\ stage[idx] = "Q")
          => (err = PolarisationError
              /\ err \notin {FileBackgroundError, RegionIntensityError})
    /\ (pc = "failed" /\ idx \in Channels /\ stage[idx] = "R")
          => (err = FileBackgroundError
              /\ err \notin {PolarisationError, RegionIntensityError})
    /\ (pc = "failed" /\ idx \notin Channels /\ RegionIntensityRequested)
          => (err = RegionIntensityError
              /\ err \notin {PolarisationError, FileBackgroundError})

\* C8: the writer is reached, and a file exists, only on the cli and save paths
\* after check_config has accepted the configuration and a read of result has
\* completed every step for every dataset without raising; once an error has
\* been raised the handler has ended and nothing has been written.
C8_NoFileForFailedReduction ==
    /\ (pc = "save_orso" \/ saved # None) =>
          /\ caller \in {"cli", "save"}
          /\ validated
          /\ ConfigurationError = "none"
          /\ err = "none"
          /\ reads >= 1
          /\ \A k \in Channels : stage[k] = "intensity" /\ data_list[k].result.R # None
          /\ ~PolarisationRequested
          /\ ~FileBackgroundRequested
          /\ parameters.normalisation.intensity_norm_type # "psdRegion"
    /\ err # "none" => (pc = "failed" /\ saved = None)

C8_Witness ==
    /\ pc = "done"
    /\ caller = "save"
    /\ reads = 2
    /\ saved # None
    /\ Len(saved) = 2
    /\ \A k \in Channels : Len(saved[k].rows) = Len(data_list[k].counts)

\* the background estimate of scan point i of dataset k: the mean over the
\* configured background rectangle of the point's detector image, with its
\* uncertainty
RegionEstimate(k, i) ==
    extract_region_mean(
        get_dataset(data, "2Ddata",
                    data_list[k].measurement.instrument_settings.polarization)[i],
        parameters.background.region)

\* C9 as stated: with region-mode background enabled in a configuration that
\* check_config accepts (on a file that holds the detector image), step 5
\* lowers R by the estimate from the background rectangle times the
\* normalisation coefficient and combines dR in quadrature with the estimate's
\* uncertainty times the coefficient.
C9_RegionBackgroundSubtracted ==
    (/\ pc = "calc_int"
     /\ validated
     /\ RegionModeBackground
     /\ ConfigurationError = "none"
     /\ "2Ddata" \in data.detectors_list)
    => \A i \in Points(idx) :
          /\ data_list[idx].result.R[i]
               = Sub(ExpectedR(idx, i), Mul(RegionEstimate(idx, i)[1], norm_local[i]))
          /\ data_list[idx].result.dR[i]
               = Quadrature(ExpectedDR(idx, i),
                            SqScale(RegionEstimate(idx, i)[2], norm_local[i]))

\* C10: step 5 in constant mode lowers every R of the dataset by the configured
\* constant and leaves dR as it was (0.1 less 0.01 gives 0.09); with background
\* correction disabled step 5 leaves R and dR as they were.
C10_ConstantBackground ==
    [][(pc = "calc_bg" /\ pc' = "calc_int") =>
          LET before == data_list[idx].result
              after == data_list'[idx].result
              value == parameters.background.value
          IN  /\ (/\ parameters.background.use_correction
                  /\ parameters.background.correction_type = "constValue")
                 => /\ \A i \in Points(idx) :
                          /\ after.R[i] = Sub(before.R[i], value)
                          /\ (before.R[i] = Frac(1, 10) /\ value = Frac(1, 100))
                                => after.R[i] = Frac(9, 100)
                    /\ after.dR = before.dR
              /\ ~parameters.background.use_correction
                 => (after.R = before.R /\ after.dR = before.dR)
              /\ \A k \in Channels \ {idx} : data_list'[k] = data_list[k]]_vars

C10_Witness ==
    /\ pc = "calc_int"
    /\ parameters.background.use_correction
    /\ parameters.background.correction_type = "constValue"
    /\ parameters.background.value = Frac(1, 100)
    /\ \E i \in Points(idx) :
          /\ ExpectedR(idx, i) = Frac(1, 10)
          /\ data_list[idx].result.R[i] = Frac(9, 100)
          /\ data_list[idx].result.dR[i] = ExpectedDR(idx, i)

\* C11 as stated: with the intensity_norm toggle off and the mode constant,
\* per-dataset maximum or global maximum, neither step 6 of a dataset nor the
\* global pass changes the R or dR of any dataset, so the final values are the
\* background-adjusted ones.
C11_IntensityOnlyIfEnabled ==
    [][(/\ ~parameters.normalisation.intensity_norm
        /\ parameters.normalisation.intensity_norm_type
              \in {"constValue", "maxValue", "maxValueGlobal"}
        /\ pc \in {"calc_int", "calc_global"})
       => \A k \in Channels :
             /\ data_list'[k].result.R = data_list[k].result.R
             /\ data_list'[k].result.dR = data_list[k].result.dR]_vars

(***************************************************************************)
(* The reduction as a function of the input arrays and the configuration   *)
(***************************************************************************)
BackgroundMode ==
    IF parameters.background.use_correction
    THEN parameters.background.correction_type ELSE "off"

\* R and dR of a scan point once step 5 has run
BackgroundAdjustedR(k, i) ==
    CASE BackgroundMode = "constValue" ->
            Sub(ExpectedR(k, i), parameters.background.value)
      [] BackgroundMode = "psdRegion" ->
            Sub(ExpectedR(k, i),
                Mul(data_list[k].background[i], ExpectedNormalisation(k, i)))
      [] OTHER -> ExpectedR(k, i)

BackgroundAdjustedDR(k, i) ==
    IF BackgroundMode = "psdRegion"
    THEN Add(RAbs(ExpectedDR(k, i)),
             RAbs(Mul(data_list[k].e_background[i], SqOf(ExpectedNormalisation(k, i)))))
    ELSE ExpectedDR(k, i)

\* what step 6 divides dataset k by
StepSixDivisor(k) ==
    IF ~parameters.normalisation.intensity_norm THEN One
    ELSE CASE parameters.normalisation.intensity_norm_type = "constValue" ->
                 parameters.normalisation.intensity_value
           [] parameters.normalisation.intensity_norm_type = "maxValue" ->
                 NpMax([i \in Points(k) |-> BackgroundAdjustedR(k, i)])
           [] OTHER -> One

\* what the pass after the loop divides every dataset by
GlobalDivisor ==
    IF parameters.normalisation.intensity_norm_type = "maxValueGlobal"
    THEN NpMax([k \in Channels |->
                  NpMax([i \in Points(k) |->
                           Div(BackgroundAdjustedR(k, i), StepSixDivisor(k))])])
    ELSE One

FinalR(k, i) == Div(Div(BackgroundAdjustedR(k, i), StepSixDivisor(k)), GlobalDivisor)

FinalDR(k, i) ==
    Mul(Mul(BackgroundAdjustedDR(k, i), SqOf(Inv(StepSixDivisor(k)))),
        SqOf(Inv(GlobalDivisor)))

\* a read of result has returned its list to the caller
ResultReturned == pc \in {"returned", "save_orso", "done"} /\ reads > 0

\* C12: the Q, dQ, R and dR a read of result returns are a function of the
\* input arrays of the datasets and of the configuration alone: whatever the
\* caller, the order of the channels and the number of earlier reads of the same
\* object, every channel holds the values of the closed form above, and the
\* input arrays are the ones the construction extracted.
C12_Deterministic ==
    ResultReturned =>
        \A k \in Channels :
            /\ [data_list[k] EXCEPT !.result = DataSetOutput]
                  = DataSet(parameters, data, data.polarisation[k])
            /\ Len(data_list[k].result.R) = Len(data_list[k].counts)
            /\ Len(data_list[k].result.dR) = Len(data_list[k].counts)
            /\ \A i \in Points(k) :
                  /\ data_list[k].result.Q[i]
                        = <<"Q", data_list[k].theta[i], data.wavelength>>
                  /\ data_list[k].result.dQ[i]
                        = <<"dQ", data_list[k].theta[i], data.wavelength,
                            data.slit_configuration, "WAVELENGTH_RESOLUTION">>
                  /\ data_list[k].result.R[i] = FinalR(k, i)
                  /\ data_list[k].result.dR[i] = FinalDR(k, i)

\* the second read of the same object on the save path has returned, with
\* constant background and an intensity step that changed R
C12_Witness ==
    /\ pc = "returned"
    /\ reads = 2
    /\ BackgroundMode = "constValue"
    /\ parameters.normalisation.intensity_norm_type = "constValue"
    /\ Len(data_list) = 2
    /\ \E k \in Channels : \E i \in Points(k) :
          /\ data_list[k].result.R[i] = Frac(9, 200)
          /\ data_list[k].result.R[i] # ExpectedR(k, i)

\* the datasets as the construction left them
Extracted == [k \in 1..Len(data.polarisation) |->
                 DataSet(parameters, data, data.polarisation[k])]

\* C13: with the iterations of the loop interleaved in any order, (a) before
\* the global pass the Q, dQ, R, dR of a dataset are what the loop body makes
\* of that dataset's own arrays and the configuration, whatever the other
\* datasets have been through, and (b) once result returns, every dataset is
\* what the sequential loop followed by the global pass produces.
C13_ChannelsIndependent ==
    /\ (pc \in {"parallel", "calc_global"} /\ err = "none") =>
          \A k \in Channels :
              data_list[k] = loop_body(parameters, Extracted[k], stage[k])
    /\ pc = "returned" =>
          data_list = calculate(parameters, Extracted).list

\* the second dataset is through step 6 while the first has only its R, the
\* two having different normalisation coefficients
C13_Witness ==
    /\ pc = "parallel"
    /\ stage = <<"R", "intensity">>
    /\ norm_local[1] # norm_local[2]
    /\ BackgroundMode = "psdRegion"
    /\ data_list[2].result.R # loop_body(parameters, Extracted[2], "R").result.R
    /\ data_list[1].result.R = loop_body(parameters, Extracted[1], "R").result.R

\* the spin devices among the scan devices of the file
SpinDevicesPresent == {j \in 1..2 : POLARISATION_DEVICES[j] \in data.dev_list}

\* C14: the channel list the provider returns is non-empty, names no channel
\* twice, and contains 'unpolarized' exactly when none of the spin devices is
\* among the scan devices.
C14_ChannelList ==
    pc # "open" =>
        /\ Len(data.polarisation) >= 1
        /\ \A a, b \in 1..Len(data.polarisation) :
              data.polarisation[a] = data.polarisation[b] => a = b
        /\ (\E a \in 1..Len(data.polarisation) : data.polarisation[a] = <<"unpolarized">>)
              <=> SpinDevicesPresent = {}

\* both spin devices are scanned and the list holds four channels
C14_Witness ==
    /\ pc = "construct"
    /\ SpinDevicesPresent = {1, 2}
    /\ Len(data.polarisation) = 4
    /\ \A a \in 1..4 : data.polarisation[a] # <<"unpolarized">>

\* the state the file records for spin device j in scan row r
RecordedState(r, j) ==
    data.rows[r]["flip"][Cardinality({i \in SpinDevicesPresent : i <= j})]

\* scan row r belongs to channel c
BelongsTo(r, c) ==
    \/ c = <<"unpolarized">>
    \/ /\ c # <<"unpolarized">>
       /\ \A j \in 1..2 :
             c[j] # "o" => /\ j \in SpinDevicesPresent
                           /\ RecordedState(r, j) = POLARISATION_STATES[c[j]]

\* the rows of the scan that belong to channel c, in scan order
RowsOf(c) ==
    LET K == {r \in 1..NRows : BelongsTo(r, c)}
    IN  [i \in 1..Cardinality(K) |->
            CHOOSE r \in K : Cardinality({q \in K : q < r}) = i - 1]

\* C15: the arrays the provider hands out for a channel hold exactly the rows
\* in which every spin device named by a non-'o' symbol of the channel's code
\* is in the state the symbol stands for, in scan order; 'unpolarized' keeps
\* every row.
C15_ChannelFilter ==
    pc = "read_result" =>
        \A k \in Channels :
            LET c == data.polarisation[k]
                rows == RowsOf(c)
                column(name) == [i \in 1..Len(rows) |-> data.rows[rows[i]][name]]
            IN  /\ data_list[k].theta = column("theta")
                /\ data_list[k].monitor = column("monitor")
                /\ data_list[k].time = column("time")
                /\ PointDetector => data_list[k].counts = column("detector")
                /\ c = <<"unpolarized">> => Len(data_list[k].theta) = NRows

\* both spin devices are scanned and channel 'mp' keeps the second row alone
C15_Witness ==
    /\ pc = "read_result"
    /\ SpinDevicesPresent = {1, 2}
    /\ \E k \in Channels :
          /\ data.polarisation[k] = <<"m", "p">>
          /\ data_list[k].theta = <<ThetaAt(2)>>
          /\ data.rows[1]["flip"] = <<POLARISATION_STATES.m, POLARISATION_STATES.m>>

\* the number of scan rows that belong to the channel of dataset k
ChannelRows(k) ==
    Cardinality({r \in 1..NRows : BelongsTo(r, data.polarisation[k])})

\* C16: in every DataSet, for point detectors and the 2D detector alike, theta,
\* time, monitor, counts, e_counts, background and e_background all have the
\* length of the number of scan rows of the channel; Q, dQ, R and dR, once the
\* pipeline has set them, have that same length.
C16_ArrayLengths ==
    \A k \in Channels :
        LET ds == data_list[k]
            n == ChannelRows(k)
        IN  /\ Len(ds.theta) = n
            /\ Len(ds.time) = n
            /\ Len(ds.monitor) = n
            /\ Len(ds.counts) = n
            /\ Len(ds.e_counts) = n
            /\ Len(ds.background) = n
            /\ Len(ds.e_background) = n
            /\ ds.result.Q # None => Len(ds.result.Q) = n /\ Len(ds.result.dQ) = n
            /\ ds.result.R # None => Len(ds.result.R) = n /\ Len(ds.result.dR) = n
            /\ ResultReturned =>
                  /\ ds.result.Q # None /\ ds.result.dQ # None
                  /\ ds.result.R # None /\ ds.result.dR # None

\* a two-channel scan on the 2D detector has been reduced, each channel
\* holding fewer rows than the scan
C16_Witness ==
    /\ pc = "returned"
    /\ ~PointDetector
    /\ Len(data_list) = 2
    /\ \A k \in Channels :
          /\ Len(data_list[k].counts) \in 1..(NRows - 1)
          /\ Len(data_list[k].result.R) = Len(data_list[k].counts)
          /\ Len(data_list[k].result.Q) = Len(data_list[k].theta)

\* pixel px lies in the rectangle (y_min, y_max, x_min, x_max), bounds included
InRect(px, rect) ==
    /\ rect[1] <= px[1] /\ px[1] <= rect[2]
    /\ rect[3] <= px[2] /\ px[2] <= rect[4]

\* the detector image of scan point i of dataset k
Frame(k, i) == data.rows[RowsOf(data.polarisation[k])[i]]["2Ddata"]

SignalPixels == {px \in Pixels : InRect(px, parameters.data_source.region)}
BackgroundPixels == {px \in Pixels : InRect(px, parameters.background.region)}

\* C17: with the 2D detector and region-mode background, the background
\* estimate of every frame is the sum of the counts of the pixels of the
\* background rectangle that lie outside the signal rectangle, divided by the
\* number of those pixels, and its uncertainty the square root of that sum
\* over the same number; when the rectangles share no pixel this is the plain
\* mean over the background rectangle.
C17_BackgroundExcludesSignal ==
    (~PointDetector /\ BackgroundMode = "psdRegion") =>
        \A k \in Channels : \A i \in Points(k) :
            LET used == BackgroundPixels \ SignalPixels
                total == SumSet(used, Frame(k, i))
            IN  /\ data_list[k].background[i]
                      = Frac(total, Cardinality(used))
                /\ data_list[k].e_background[i]
                      = Frac(total, Cardinality(used) * Cardinality(used))
                /\ SignalPixels \cap BackgroundPixels = {} =>
                      data_list[k].background[i]
                          = Frac(SumSet(BackgroundPixels, Frame(k, i)),
                                 Cardinality(BackgroundPixels))

\* a reduction has returned in which the rectangles share the signal pixel,
\* and on a frame whose pixels all differ the estimate is the count of the one
\* background pixel outside it
C17_Witness ==
    /\ pc = "returned"
    /\ ~PointDetector
    /\ BackgroundMode = "psdRegion"
    /\ SignalPixels \cap BackgroundPixels # {}
    /\ \E k \in Channels : \E i \in Points(k) :
          /\ Frame(k, i) = GradientFrame
          /\ data_list[k].background[i] = Rat(GradientFrame[<<1, 0>>])
          /\ data_list[k].background[i]
                # Frac(SumSet(BackgroundPixels, Frame(k, i)), Cardinality(BackgroundPixels))

\* the branches of __intensity_correction and of the global pass that rescale
StepSixApplied ==
    /\ parameters.normalisation.intensity_norm
    /\ parameters.normalisation.intensity_norm_type \in {"constValue", "maxValue"}

GlobalPassApplied == \E k \in Channels : scaled_by[k] # None

\* the branches of __background_correction that adjust R
BackgroundApplied ==
    /\ parameters.background.use_correction
    /\ parameters.background.correction_type \in {"constValue", "psdRegion"}

\* the sentences of the narrative of block k that start with the given words
Sentences(k, words) ==
    {i \in 1..Len(saved[k].corrections) : saved[k].corrections[i][1] = words}

\* C18 as stated: in a written document the narrative of every block holds the
\* sentence of footprint correction, absorption correction, time
\* normalisation, monitor normalisation, intensity normalisation and
\* background correction exactly when __calculate applied that step, and the
\* intensity and background sentences name the mode that was applied.
C18_NarrativeMatchesApplied ==
    saved # None =>
        \A k \in 1..Len(saved) :
            LET c == saved[k].corrections
                in == Sentences(k, "Made intensity normalisation by")
                bk == Sentences(k, "Made background correction")
            IN  /\ Sentences(k, "Made foot print correction with trapezoid beam") # {}
                      <=> parameters.reduction.foot_print_correction
                /\ Sentences(k, "Made absorption correction with") # {}
                      <=> parameters.reduction.absorption_correction
                /\ Sentences(k, "Made time normalisation") # {}
                      <=> parameters.normalisation.time
                /\ Sentences(k, "Made monitor counts normalisation") # {}
                      <=> parameters.normalisation.monitor
                /\ in # {} <=> (StepSixApplied \/ GlobalPassApplied)
                /\ \A i \in in :
                      c[i][2][1] =
                          CASE GlobalPassApplied -> "maximum intensity point of all datasets"
                            [] parameters.normalisation.intensity_norm_type = "maxValue" ->
                                  "maximum intensity point in current dataset"
                            [] OTHER -> "constant value"
                /\ bk # {} <=> BackgroundApplied
                /\ \A i \in bk :
                      c[i][2][1] =
                          IF parameters.background.correction_type = "constValue"
                          THEN "with constant value" ELSE "from PSD in region"

\* C19: the document handed to the writer has one block per channel of the
\* file, in the order of the channel list and labelled with its channel; every
\* block has the four columns Q, error of Q, R, error of R, and one row
\* [Q, dQ, R, dR] per scan point of the channel.
C19_DocumentLayout ==
    saved # None =>
        /\ Len(saved) = Len(data.polarisation)
        /\ \A k \in 1..Len(saved) :
              /\ saved[k].polarization = data.polarisation[k]
              /\ Len(saved[k].columns) = 4
              /\ saved[k].columns[1].name = "Q"
              /\ saved[k].columns[2].error_of = "Q"
              /\ saved[k].columns[3].name = "R"
              /\ saved[k].columns[4].error_of = "R"
              /\ Len(saved[k].rows) = ChannelRows(k)
              /\ \A i \in 1..Len(saved[k].rows) :
                    /\ Len(saved[k].rows[i]) = 4
                    /\ saved[k].rows[i][1] = data_list[k].result.Q[i]
                    /\ saved[k].rows[i][2] = data_list[k].result.dQ[i]
                    /\ saved[k].rows[i][3] = data_list[k].result.R[i]
                    /\ saved[k].rows[i][4] = data_list[k].result.dR[i]
                    /\ saved[k].rows[i][3] = FinalR(k, i)

\* a two-channel document has been written, each block with at least one row
C19_Witness ==
    /\ pc = "done"
    /\ saved # None
    /\ Len(saved) = 2
    /\ saved[1].polarization # saved[2].polarization
    /\ \A k \in 1..2 : Len(saved[k].rows) >= 1 /\ Len(saved[k].rows) < NRows

\* R of step 4 with the absorption factor left out
RWithoutAbsorption(k, i) ==
    LET ds == data_list[k]
        fp == IF parameters.reduction.foot_print_correction
              THEN footprint_correction_two_slits(
                       ds.theta[i], ds.measurement.instrument_settings.slit_configuration,
                       ds.header.sample.length)
              ELSE One
    IN  Mul(ds.counts[i], Mul(fp, ExpectedNormalisation(k, i)))

\* the factor absorption_correction returns for scan point i of dataset k
AttenuationFactor(k, i) ==
    absorption_correction(data_list[k].theta[i],
                          data_list[k].measurement.instrument_settings.wavelength,
                          parameters.reduction.mu_value, data_list[k].header.sample)

\* C20 as stated: with absorption correction enabled and mu > 0, the R that
\* step 4 computes is the R without absorption times 1/corr, corr being the
\* attenuation factor the engine returns, and so is at no scan point smaller
\* than the R computed with absorption correction disabled.
C20_AbsorptionRaisesR ==
    (/\ pc = "calc_bg"
     /\ parameters.reduction.absorption_correction
     /\ Less(Zero, parameters.reduction.mu_value))
    => \A i \in Points(idx) :
          /\ data_list[idx].result.R[i]
                = Mul(RWithoutAbsorption(idx, i), Inv(AttenuationFactor(idx, i)))
          /\ ~Less(data_list[idx].result.R[i], RWithoutAbsorption(idx, i))

\* the denominator safety_div divides by for the reading x of a scan of SpecNorm
GuardedReading(x) == IF x \in NearZeroReadings THEN WithEx(One, 12) ELSE x

\* C21: the normalisation coefficient of a point is finite for every monitor
\* and time reading, zero included; it is 1, divided by the monitor reading if
\* monitor normalisation is on and then by the time reading if time
\* normalisation is on, with 1e12 taking the place of a reading of magnitude
\* below 1e-12; with both normalisations off it is exactly 1.
C21_GuardedNormalisation ==
    norm_local # <<>> =>
        \A i \in 1..Len(norm_local) :
            LET m == data_list[1].monitor[i]
                t == data_list[1].time[i]
                c1 == IF parameters.normalisation.monitor
                      THEN Div(One, GuardedReading(m)) ELSE One
                c2 == IF parameters.normalisation.time
                      THEN Div(c1, GuardedReading(t)) ELSE c1
            IN  /\ IsFinite(norm_local[i])
                /\ norm_local[i] = c2
                /\ (~parameters.normalisation.monitor /\ ~parameters.normalisation.time)
                      => norm_local[i] = One

\* both normalisations on, a row with zero monitor and zero time (coefficient
\* 1e-24) beside a row with the monitor on the threshold (coefficient 1e12 / 2)
C21_Witness ==
    /\ norm_local # <<>>
    /\ parameters.normalisation.monitor
    /\ parameters.normalisation.time
    /\ data_list[1].monitor[1] = Zero
    /\ data_list[1].time[1] = Zero
    /\ norm_local[1] = WithEx(One, -24)
    /\ data_list[1].monitor[2] = WithEx(One, -12)
    /\ data_list[1].time[2] = Rat(2)
    /\ norm_local[2] = WithEx(<<5, 1>>, 11)

\* the angle from which the beam of the measured geometry lies fully on the
\* sample, asin(beam_size / sample_length), in degrees; nan if there is none
FullIlluminationAngle ==
    LET sl == data.slit_configuration
        l1 == RAbs(sl.slit1_position)
        l2 == RAbs(sl.slit2_position)
        beam_size == Sub(Div(Mul(Add(sl.slit1_width, sl.slit2_width), Add(l1, l2)),
                             Sub(l1, l2)), sl.slit1_width)
    IN  ArcsinDeg(Div(beam_size, data.sample.length))

\* the factor the corrections step multiplied the counts of point i by
AppliedFactor(i) ==
    Div(data_list[1].result.R[i], Mul(data_list[1].counts[i], norm_local[i]))

Area(rect) == (rect[2] - rect[1] + 1) * (rect[4] - rect[3] + 1)

\* C23: with the 2D detector, the signal of every frame is the sum of the
\* counts of the pixels from (y_min, x_min) to (y_max, x_max), both ends
\* included, divided by the pixel count of the rectangle, and its uncertainty
\* is the square root of that sum over the same count; with a point detector
\* the signal is the recorded count and its uncertainty the square root of it.
C23_RegionMean ==
    \A k \in Channels : \A i \in Points(k) :
        IF PointDetector
        THEN /\ data_list[k].counts[i]
                    = data.rows[RowsOf(data.polarisation[k])[i]][DEFAULT_DETECTOR]
             /\ data_list[k].e_counts[i] = data_list[k].counts[i]
        ELSE LET total == SumSet(SignalPixels, Frame(k, i))
                 count == Area(parameters.data_source.region)
             IN  /\ data_list[k].counts[i] = Frac(total, count)
                 /\ data_list[k].e_counts[i] = Frac(total, count * count)

\* a reduction has returned whose signal rectangle covers the whole image: on
\* a graded frame the signal is the mean of all pixel counts, which the
\* rectangle without its last row and column would not give
C23_Witness ==
    /\ pc = "returned"
    /\ ~PointDetector
    /\ parameters.data_source.region = <<0, ImgSize - 1, 0, ImgSize - 1>>
    /\ \E k \in Channels : \E i \in Points(k) :
          /\ Frame(k, i) = GradientFrame
          /\ data_list[k].counts[i]
                = Frac(SumSet(Pixels, GradientFrame), ImgSize * ImgSize)
          /\ data_list[k].counts[i] # Rat(GradientFrame[<<0, 0>>])

\* C29: with the 2D detector and a signal rectangle that covers at least one
\* pixel of the image, the signal of every frame is the mean of the counts of
\* the pixels summed: the sum divided by the number of pixels summed.
C29_DivisorIsPixelsSummed ==
    (~PointDetector /\ SignalPixels # {}) =>
        \A k \in Channels : \A i \in Points(k) :
            data_list[k].counts[i]
                = Frac(SumSet(SignalPixels, Frame(k, i)), Cardinality(SignalPixels))

\* C30: with the 2D detector, region-mode background and rectangles that
\* overlap, at least one pixel of the background rectangle lies outside the
\* signal rectangle, and the background estimate and its uncertainty are
\* finite for every frame.
C30_MaskedBackgroundDefined ==
    (/\ ~PointDetector
     /\ BackgroundMode = "psdRegion"
     /\ BackgroundPixels # {}
     /\ regions_overlap(parameters.data_source.region, parameters.background.region)) =>
        /\ Cardinality(BackgroundPixels \ SignalPixels) >= 1
        /\ \A k \in Channels : \A i \in Points(k) :
              /\ IsFinite(data_list[k].background[i])
              /\ IsFinite(data_list[k].e_background[i])

\* the place in __calculate of the step a narrative sentence reports: detector
\* data, the corrections coefficient, the division by the monitor, the
\* division by the time, the background step, the intensity step, and then
\* the three closing sentences
PipelineRank(words) ==
    CASE words = "Collect intensity from" -> 0
      [] words \in {"Made foot print correction with trapezoid beam",
                    "Made polarisation correction",
                    "Made absorption correction with"} -> 1
      [] words = "Made monitor counts normalisation" -> 2
      [] words = "Made time normalisation" -> 3
      [] words = "Made background correction" -> 4
      [] words = "Made intensity normalisation by" -> 5
      [] words = "Calculate Q from Angle" -> 6
      [] words = "Calculate dQ from Slit parameters and delta lambda / lambda =" -> 7
      [] words = "Calculate dR like Poisson distribution" -> 8

\* C24 as stated: in a written document the narrative of every block starts
\* with the detector sentence, ends with the three closing sentences, and
\* lists the sentences of the applied steps in the order in which __calculate
\* applies them.
C24_NarrativeInPipelineOrder ==
    saved # None =>
        \A k \in 1..Len(saved) :
            LET c == saved[k].corrections
                n == Len(c)
            IN  /\ n >= 4
                /\ PipelineRank(c[1][1]) = 0
                /\ PipelineRank(c[n - 2][1]) = 6
                /\ PipelineRank(c[n - 1][1]) = 7
                /\ PipelineRank(c[n][1]) = 8
                /\ \A i \in 1..n : \A j \in 1..n :
                      i < j => PipelineRank(c[i][1]) <= PipelineRank(c[j][1])

\* C25 as stated: in a written document the record of every channel carries
\* the instrument settings of the channel: the incident-angle range runs from
\* the smallest to the largest incident angle of the settings, and the
\* wavelength, the four slit values and the polarization label are those of
\* the settings.
C25_SettingsCarriedOver ==
    saved # None =>
        \A k \in 1..Len(saved) :
            LET out == saved[k].measurement.instrument_settings
                is_data == data_list[k].measurement.instrument_settings
            IN  /\ out.incident_angle = is_data.incident_angle
                /\ out.wavelength = is_data.wavelength
                /\ \A key \in {"slit1_width", "slit2_width", "slit1_position", "slit2_position"} :
                      out.slit_configuration[key][1] = is_data.slit_configuration[key]
                /\ out.polarization = is_data.polarization
                /\ saved[k].polarization = is_data.polarization

\* C26: whenever result has returned, after one read or after two, the
\* datasets hold the Q, dQ, R and dR that a single read of a freshly
\* constructed object returns, and one more read of the object as it stands
\* would return them again.
C26_RereadReturnsSame ==
    ResultReturned =>
        /\ calculate(parameters, Extracted).exc = "none"
        /\ data_list = calculate(parameters, Extracted).list
        /\ calculate(parameters, data_list).list = data_list

\* the GUI save path has read result a second time, on two channels that the
\* global pass divided by a maximum other than 1
C26_Witness ==
    /\ caller = "save"
    /\ pc = "returned"
    /\ reads = 2
    /\ Len(data_list) = 2
    /\ GlobalPassApplied
    /\ \E k \in Channels : scaled_by[k] \notin {None, One}

\* a dataset without its result
Inputs(dataset) == [dataset EXCEPT !.result = DataSetOutput]

\* C27: once the datasets are constructed, no step of any read of result,
\* whether it completes or raises, changes the theta, time, monitor, counts,
\* e_counts, background, e_background, header or measurement of a dataset,
\* the number of datasets, the configuration or the file: only the result of
\* a dataset is written.
C27_PipelineWritesOnlyResult ==
    [][ /\ parameters' = parameters
        /\ data' = data
        /\ data_list # <<>> =>
              /\ Len(data_list') = Len(data_list)
              /\ \A k \in Channels : Inputs(data_list'[k]) = Inputs(data_list[k]) ]_vars

\* two reads have completed and written an R that differs from the counts,
\* which are still those of the construction
C27_Witness ==
    /\ pc = "returned"
    /\ reads = 2
    /\ \A k \in Channels : Inputs(data_list[k]) = Extracted[k]
    /\ \E k \in Channels : \E i \in Points(k) :
          data_list[k].result.R[i] # data_list[k].counts[i]

\* the channels whose theta array holds the angle of scan row r
ChannelsHolding(r) ==
    {k \in Channels : \E i \in Points(k) : data_list[k].theta[i] = data.rows[r]["theta"]}

\* C28: when every recorded spin-device state is one of the two states of
\* POLARISATION_STATES, the datasets constructed from the channel list
\* partition the scan rows: every row is in exactly one channel, once, and the
\* channel lengths add up to the number of rows; the number of channels is
\* 2^k for k spin devices among the scan devices.
C28_ChannelsPartitionRows ==
    (/\ pc = "read_result"
     /\ \A r \in 1..NRows : \A j \in SpinDevicesPresent :
           RecordedState(r, j) \in {POLARISATION_STATES.m, POLARISATION_STATES.p}) =>
        /\ \A r \in 1..NRows :
              /\ Cardinality(ChannelsHolding(r)) = 1
              /\ \A k \in ChannelsHolding(r) :
                    Cardinality({i \in Points(k) :
                                    data_list[k].theta[i] = data.rows[r]["theta"]}) = 1
        /\ SumSet(Channels, [k \in Channels |-> Len(data_list[k].theta)]) = NRows
        /\ Len(data_list) = 2 ^ Cardinality(SpinDevicesPresent)

\* both spin devices are scanned, the rows are recorded in different states,
\* and of the four channels two hold one row each and two are empty
C28_Witness ==
    /\ pc = "read_result"
    /\ SpinDevicesPresent = {1, 2}
    /\ Len(data_list) = 4
    /\ data.rows[1]["flip"] = <<POLARISATION_STATES.m, POLARISATION_STATES.p>>
    /\ data.rows[2]["flip"] = <<POLARISATION_STATES.p, POLARISATION_STATES.p>>
    /\ Cardinality({k \in Channels : Len(data_list[k].theta) = 1}) = 2
    /\ Cardinality({k \in Channels : Len(data_list[k].theta) = 0}) = 2

====
